---- MODULE Spec2Model ----
(***************************************************************************)
(* code_context: the file-selection, cleaning, analysis and caching        *)
(* pipeline in its three driver variants (ContentProcessor,                *)
(* AsyncContentProcessor, OptimizedContentProcessor), the two-layer        *)
(* FileAnalysisCache, the output envelope writer and the CLI entry point.  *)
(*                                                                         *)
(* Text is modelled as a tuple of one-character strings, so that path      *)
(* splitting, suffix extraction and substring tests are computed as the    *)
(* code computes them.  File content is a tuple of line tokens.            *)
(***************************************************************************)
EXTENDS Integers, Sequences, FiniteSets, TLC

(* ----------------------------- bounds ---------------------------------- *)
\* number of files in the target directory
MaxFiles == 2
\* number of consecutive runs of process() over the same tree
MaxRuns == 2
\* number of statements in the body of a Python module given to the analyzer
MaxTop == 3
\* number of statements in the body of a function or class
MaxNested == 1
\* how deep definitions nest inside the module
MaxDepth == 2

(* ------------------------- text helpers -------------------------------- *)
\* pat occurs in s starting at position i (1-based)
IsPrefixAt(pat, s, i) ==
    /\ i + Len(pat) - 1 <= Len(s)
    /\ \A k \in 1..Len(pat) : s[i + k - 1] = pat[k]

\* Python's `pat in s` on strings
Contains(pat, s) == \E i \in 1..(Len(s) + 1) : IsPrefixAt(pat, s, i)

\* str.startswith
StartsWith(s, pre) == IsPrefixAt(pre, s, 1)

\* str.lower on the characters that occur in the modelled paths
LowerChar(c) ==
    CASE c = "P" -> "p"
      [] c = "Y" -> "y"
      [] c = "J" -> "j"
      [] c = "S" -> "s"
      [] OTHER -> c

Lower(s) == [i \in 1..Len(s) |-> LowerChar(s[i])]

RECURSIVE LStripDots(_)
\* str.lstrip('.')
LStripDots(s) == IF s # <<>> /\ Head(s) = "." THEN LStripDots(Tail(s)) ELSE s

\* positions of '.' in a name
DotPositions(name) == {i \in 1..Len(name) : name[i] = "."}

Max(S) == CHOOSE x \in S : \A y \in S : y <= x

\* pathlib PurePath.suffix of the final component: the text from the last
\* dot, unless the name has no dot, starts at that dot, or ends with it
PathSuffix(name) ==
    IF DotPositions(name) = {} THEN <<>>
    ELSE LET i == Max(DotPositions(name))
         IN  IF i > 1 /\ i < Len(name) THEN SubSeq(name, i, Len(name)) ELSE <<>>

RECURSIVE JoinParts(_)
\* str(path): the components joined by '/'
JoinParts(parts) ==
    IF parts = <<>> THEN <<>>
    ELSE IF Len(parts) = 1 THEN parts[1]
    ELSE parts[1] \o <<"/">> \o JoinParts(Tail(parts))

RECURSIVE SumSeq(_)
SumSeq(s) == IF s = <<>> THEN 0 ELSE Head(s) + SumSeq(Tail(s))

(* ------------------------ configuration -------------------------------- *)
\* ProcessorConfig.excluded_patterns default
excluded_patterns ==
    { <<"n","o","d","e","_","m","o","d","u","l","e","s">>,
      <<".","g","i","t">>,
      <<"v","e","n","v">>,
      <<"_","_","p","y","c","a","c","h","e","_","_">>,
      <<"d","i","s","t">>,
      <<"b","u","i","l","d">>,
      <<".","e","n","v">>,
      <<".","p","y","t","e","s","t","_","c","a","c","h","e">> }

\* ProcessorConfig.included_extensions default
included_extensions ==
    { <<".","p","y">>, <<".","j","s">>, <<".","j","s","x">>, <<".","t","s">>,
      <<".","t","s","x">>, <<".","j","a","v","a">>, <<".","c","p","p">>,
      <<".","c">>, <<".","h">>, <<".","c","s">>, <<".","g","o">>, <<".","r","b">> }

\* ContentProcessor.ignored_prefixes
ignored_prefixes ==
    { <<".","g","i","t">>, <<".","c","a","c","h","e">>,
      <<"_","_","p","y","c","a","c","h","e","_","_">>,
      <<"n","o","d","e","_","m","o","d","u","l","e","s">>,
      <<"v","e","n","v">>, <<"d","i","s","t">>, <<"b","u","i","l","d">> }

\* ContentProcessor.ignored_extensions
ignored_extensions ==
    { <<".","p","y","c">>, <<".","p","y","o">>, <<".","p","y","d">>, <<".","s","o">>,
      <<".","d","l","l">>, <<".","d","y","l","i","b">>,
      <<".","p","i","c","k","l","e">>, <<".","p","k","l">>, <<".","l","o","g">>,
      <<".","c","a","c","h","e">>, <<".","j","s","o","n","l">> }

\* the sizes max_file_size is drawn from (bytes are counted in line tokens)
MaxFileSizes == {3}

\* the widths --workers is given (the default is 4)
WorkerCounts == {1}

\* the target directories a run is given, as path components
TargetDirs == { << <<"r","e","p","o">> >> }

(* --------------------------- the file tree ----------------------------- *)
\* Line tokens: "a", "b" are statements, "#" a Python comment line,
\* "//" a JavaScript comment line, "" a blank line, "!" text that the
\* Python grammar rejects.
\* io: "ok"; "noperm" (stat succeeds, open is refused); "volatile" (the file
\* may be removed by another process at any point of the run); "latin1" (the
\* bytes are not valid UTF-8: only a reader that falls back to another
\* encoding gets text out of them).
CoreFiles ==
    << [rel |-> << <<"a",".","p","y">> >>,           bytes |-> <<"a">>,      io |-> "ok"],
       [rel |-> << <<"b",".","p","y">> >>,           bytes |-> <<"a">>,      io |-> "ok"],
       [rel |-> << <<"c",".","m","d">> >>,           bytes |-> <<"a">>,      io |-> "ok"],
       [rel |-> << <<"d",".","j","a","v","a">> >>,   bytes |-> <<"a">>,      io |-> "ok"],
       [rel |-> << <<"e",".","j","s">> >>,           bytes |-> <<"//","a">>, io |-> "ok"],
       [rel |-> << <<"g",".","p","y">> >>,           bytes |-> <<"#","a">>,  io |-> "ok"],
       [rel |-> << <<"x",".","p","y">> >>,           bytes |-> <<"!">>,      io |-> "ok"],
       [rel |-> << <<"z",".","p","y">> >>,           bytes |-> <<>>,         io |-> "ok"],
       [rel |-> << <<"v",".","p","y">> >>,           bytes |-> <<"b">>,      io |-> "volatile"],
       [rel |-> << <<"n",".","p","y">> >>,           bytes |-> <<"b">>,      io |-> "noperm"],
       [rel |-> << <<"h",".","j","s">> >>,           bytes |-> <<"#","a">>,  io |-> "ok"] >>

\* 12..20: files at the edges of the filter: above the size ceiling, exactly
\* at it, under an excluded directory, with an excluded pattern inside the
\* name, under a hidden directory that no default pattern names, with an
\* upper-case extension, with no extension; a file that holds nothing but a
\* blank line; and a file whose bytes are not valid UTF-8
EdgeFiles ==
    << [rel |-> << <<"o",".","p","y">> >>,           bytes |-> <<"a","a","a","a">>, io |-> "ok"],
       [rel |-> << <<"m",".","p","y">> >>,           bytes |-> <<"a","b","a">>,     io |-> "ok"],
       [rel |-> << <<"d","i","s","t">>, <<"k",".","p","y">> >>,
                                                     bytes |-> <<"a">>,      io |-> "ok"],
       [rel |-> << <<"d","i","s","t",".","p","y">> >>, bytes |-> <<"a">>,    io |-> "ok"],
       [rel |-> << <<".","c","a","c","h","e">>, <<"k",".","p","y">> >>,
                                                     bytes |-> <<"a">>,      io |-> "ok"],
       [rel |-> << <<"u",".","P","Y">> >>,           bytes |-> <<"a","b">>,  io |-> "ok"],
       [rel |-> << <<"m","k">> >>,                   bytes |-> <<"a">>,      io |-> "ok"],
       [rel |-> << <<"w",".","p","y">> >>,           bytes |-> <<"">>,       io |-> "ok"],
       [rel |-> << <<"q",".","p","y">> >>,           bytes |-> <<"b","a">>,  io |-> "latin1"] >>

Files == CoreFiles \o EdgeFiles

FileIds == 1..Len(Files)
CoreIds == 1..Len(CoreFiles)
EdgeIds == FileIds \ CoreIds

\* the trees a run is given: up to MaxFiles files, enumerated by rglob in
\* a fixed order
Ascending(s) == \A i \in 1..(Len(s) - 1) : s[i] < s[i + 1]

Trees == UNION { {s \in [1..n -> CoreIds] : Ascending(s)} : n \in 1..MaxFiles }

(* ------------------------ file-system helpers -------------------------- *)
\* the name of a file: the last component of its path
FileName(f) == Files[f].rel[Len(Files[f].rel)]

\* file_path.suffix
Suffix(f) == PathSuffix(FileName(f))

\* file_path.suffix.lstrip('.')
FileType(f) == LStripDots(Suffix(f))

\* str(file_path.relative_to(self.config.target_dir))
RelPath(f) == JoinParts(Files[f].rel)

\* file_path.parts of the path rglob yields: target_dir's components and
\* then the file's
AbsParts(td, f) == td \o Files[f].rel

\* file_path.stat().st_size / os.path.getsize
StSize(f) == Len(Files[f].bytes)

\* calculate_file_hash: SHA-256 of the raw bytes (taken to be collision free)
calculate_file_hash(f) == <<"sha256", Files[f].bytes>>

\* the text open(..., 'r').read() yields for the file's bytes
Decode(f) == Files[f].bytes

(* --------------------------- CodeAnalyzer ------------------------------ *)
PY == <<"p","y">>
JSTypes == { <<"j","s">>, <<"j","s","x">>, <<"t","s">>, <<"t","s","x">> }

\* CodeAnalyzer.get_analyzer: the registry key for a file type, or "none"
get_analyzer(file_type) ==
    IF Lower(file_type) = PY THEN "python"
    ELSE IF Lower(file_type) \in JSTypes THEN "javascript"
    ELSE "none"

\* ast.parse succeeds
PyParses(content) == \A i \in 1..Len(content) : content[i] \notin {"!", "//"}

IsCodeLine(l) == l \notin {"#", ""}

\* PythonAnalyzer.clean_content: parse and unparse (comments and blank lines
\* go); when parsing fails, the regex fallback blanks '#...' and drops the
\* lines that are empty after it
PyClean(content) ==
    IF PyParses(content) THEN SelectSeq(content, IsCodeLine)
    ELSE LET stripped == [i \in 1..Len(content) |->
                            IF content[i] = "#" THEN "" ELSE content[i]]
             NonBlank(l) == l # ""
         IN  SelectSeq(stripped, NonBlank)

\* JavaScriptAnalyzer.clean_content: '//' comments blanked, blank lines dropped
JsClean(content) ==
    LET stripped == [i \in 1..Len(content) |->
                       IF content[i] = "//" THEN "" ELSE content[i]]
        NonBlank(l) == l # ""
    IN  SelectSeq(stripped, NonBlank)

\* CodeAnalyzer.clean_content: the input itself when no analyzer is registered
clean_content(content, file_type) ==
    CASE get_analyzer(file_type) = "python" -> PyClean(content)
      [] get_analyzer(file_type) = "javascript" -> JsClean(content)
      [] OTHER -> content

BlankCount(content) == Len(SelectSeq(content, LAMBDA l : l = ""))

\* PythonAnalyzer.analyze
PyAnalyze(content) ==
    IF PyParses(content)
    THEN [success |-> TRUE, error |-> "", lines_of_code |-> Len(content),
          blank_lines |-> BlankCount(content)]
    ELSE [success |-> FALSE, error |-> "invalid syntax", lines_of_code |-> 0,
          blank_lines |-> 0]

\* JavaScriptAnalyzer.analyze: metrics of the cleaned content
JsAnalyze(content) ==
    [success |-> TRUE, error |-> "", lines_of_code |-> Len(JsClean(content)),
     blank_lines |-> BlankCount(JsClean(content))]

\* analyze_code that raises for a type without an analyzer instead of
\* returning the failure value
AnalyzeCodeRaisesUnsupported(content, file_type) ==
    CASE get_analyzer(file_type) = "python" ->
            [file_type |-> file_type] @@ PyAnalyze(content)
      [] get_analyzer(file_type) = "javascript" ->
            [file_type |-> file_type] @@ JsAnalyze(content)
      [] OTHER -> [raised |-> "KeyError"]

\* CodeAnalyzer.analyze_code: a failure value, not an exception, when no
\* analyzer is registered; the result carries the file type
analyze_code(content, file_type) ==
    CASE get_analyzer(file_type) = "python" ->
            [file_type |-> file_type] @@ PyAnalyze(content)
      [] get_analyzer(file_type) = "javascript" ->
            [file_type |-> file_type] @@ JsAnalyze(content)
      [] OTHER ->
            [success |-> FALSE, error |-> "Unsupported file type",
             lines_of_code |-> 0, blank_lines |-> 0, file_type |-> file_type]

\* content.strip() is empty
StripsEmpty(content) == \A i \in 1..Len(content) : content[i] = ""

(* ------------------- PythonAnalyzer on the syntax tree ----------------- *)
\* A statement of a parsed module: kind is the class of its ast node,
\* "Pass" standing for any statement that is not a definition; body holds
\* the statements of a definition's body.
DefKinds == {"FunctionDef", "AsyncFunctionDef", "ClassDef"}

Pass == [kind |-> "Pass", body |-> <<>>]

SeqsUpTo(S, n) == UNION {[1..k -> S] : k \in 0..n}

RECURSIVE Nodes(_)
\* the statements whose definitions nest at most d deep
Nodes(d) ==
    IF d = 0 THEN {Pass}
    ELSE {Pass} \cup {[kind |-> k, body |-> b] :
                        k \in DefKinds, b \in SeqsUpTo(Nodes(d - 1), MaxNested)}

\* the sources analyze is given: text that ast.parse accepts, with the body
\* (of at most top statements) of the module it yields, and text it rejects
Sources(top) ==
    {[parses |-> TRUE, body |-> b] : b \in SeqsUpTo(Nodes(MaxDepth), top)}
    \cup {[parses |-> FALSE, body |-> <<>>]}

RECURSIVE WalkQueue(_)
\* ast.walk: breadth first, each node followed later by its children
WalkQueue(todo) ==
    IF todo = <<>> THEN <<>>
    ELSE <<Head(todo)>> \o WalkQueue(Tail(todo) \o Head(todo).body)

\* the statements ast.walk(tree) yields for a module (the Module node
\* itself is no definition)
Walk(body) == WalkQueue(body)

\* isinstance(node, ast.FunctionDef): ast.AsyncFunctionDef is a class of its
\* own, not a subclass
IsFunctionDef(node) == node.kind = "FunctionDef"

\* PythonAnalyzer._analyze_functions: one descriptor per node of the walk
\* that is an ast.FunctionDef
analyze_functions(body) ==
    LET fs == SelectSeq(Walk(body), IsFunctionDef)
    IN  [i \in 1..Len(fs) |-> [is_async |-> fs[i].kind = "AsyncFunctionDef"]]

\* PythonAnalyzer._analyze_classes: one descriptor per ast.ClassDef of the
\* walk, its methods the ast.FunctionDef nodes directly in its body
analyze_classes(body) ==
    LET cs == SelectSeq(Walk(body), LAMBDA n : n.kind = "ClassDef")
    IN  [i \in 1..Len(cs) |->
           [methods |->
              LET ms == SelectSeq(cs[i].body, IsFunctionDef)
              IN  [j \in 1..Len(ms) |-> [is_async |-> ms[j].kind = "AsyncFunctionDef"]]]]

\* PythonAnalyzer.analyze: the descriptors of the parsed tree, or the
\* failure value when ast.parse raises
PythonAnalyze(src) ==
    IF src.parses
    THEN [success |-> TRUE, functions |-> analyze_functions(src.body),
          classes |-> analyze_classes(src.body)]
    ELSE [success |-> FALSE, functions |-> <<>>, classes |-> <<>>]

(* ------------------------- should_process_file ------------------------- *)
ExcludedByPattern(f) == \E pat \in excluded_patterns : Contains(pat, RelPath(f))

\* AsyncShouldProcess with the size test made >=
AsyncShouldProcessRejectsAtCeiling(f, present, maxsize) ==
    /\ present
    /\ ~(StSize(f) >= maxsize)
    /\ Lower(Suffix(f)) \in included_extensions
    /\ ~ExcludedByPattern(f)

\* AsyncContentProcessor.should_process_file; present: the file is on disk
\* while it is checked (is_file() is false or stat() raises otherwise, and
\* both end in False)
AsyncShouldProcess(f, present, maxsize) ==
    /\ present
    /\ ~(StSize(f) > maxsize)
    /\ Lower(Suffix(f)) \in included_extensions
    /\ ~ExcludedByPattern(f)

\* OptShouldProcess without the test of the excluded patterns
OptShouldProcessIgnoresPatterns(f, present, maxsize) ==
    /\ present
    /\ ~(StSize(f) > maxsize)
    /\ Lower(Suffix(f)) \in included_extensions

\* OptimizedContentProcessor.should_process_file
OptShouldProcess(f, present, maxsize) ==
    /\ present
    /\ ~(StSize(f) > maxsize)
    /\ Lower(Suffix(f)) \in included_extensions
    /\ ~ExcludedByPattern(f)

\* ContentShouldProcess without the allow-list test of the extension
ContentShouldProcessAnyExtension(td, f, present, maxsize) ==
    /\ present
    /\ ~(\E k \in 1..Len(AbsParts(td, f)) : StartsWith(AbsParts(td, f)[k], <<".">>))
    /\ ~(\E k \in 1..Len(AbsParts(td, f)) : AbsParts(td, f)[k] \in ignored_prefixes)
    /\ Lower(Suffix(f)) \notin ignored_extensions
    /\ ~(StSize(f) > maxsize)
    /\ ~ExcludedByPattern(f)

\* ContentProcessor.should_process_file
ContentShouldProcess(td, f, present, maxsize) ==
    /\ present
    /\ ~(\E k \in 1..Len(AbsParts(td, f)) : StartsWith(AbsParts(td, f)[k], <<".">>))
    /\ ~(\E k \in 1..Len(AbsParts(td, f)) : AbsParts(td, f)[k] \in ignored_prefixes)
    /\ Lower(Suffix(f)) \notin ignored_extensions
    /\ Lower(Suffix(f)) \in included_extensions
    /\ ~(StSize(f) > maxsize)
    /\ ~ExcludedByPattern(f)

(* ------------------------------- state --------------------------------- *)
VARIABLES
    variant,        \* which processor class runs: "content", "async", "optimized"
    target_dir,     \* config.target_dir, as path components
    tree,           \* the files under target_dir, in rglob order
    cache_enabled,  \* config.cache_enabled
    output_format,  \* config.output_format
    max_file_size,  \* config.max_file_size
    worker_count,   \* config.worker_count
    run,            \* the number of the current run (a new process each)
    pc,             \* position in process() and in the CLI's main()
    gone,           \* files another process has removed from the disk
    stats,          \* self.stats
    results,        \* the result list
    seen_contents,  \* ContentProcessor.seen_contents
    memory_cache,   \* FileAnalysisCache.memory_cache
    disk_cache,     \* the pickle files under .cache
    files,          \* the list process() iterates over
    idx,            \* how many of files have had process_file started
    tasks,          \* the coroutines of the chunk asyncio.gather awaits
    out,            \* the output file
    wr,             \* how many records the jsonl writer has written
    prev,           \* the result list of the run before this one
    summary,        \* how display_summary ended in this run of main(), "none" before
    source,         \* the Python source PythonAnalyzer.analyze is given
    report,         \* what PythonAnalyzer.analyze returned for it
    call,           \* the last call made on a FileAnalysisCache used on its own
    promoted,       \* the digests whose memory entry get loaded from the durable layer
    last            \* the last process_file call that returned

vars == <<variant, target_dir, tree, cache_enabled, output_format, max_file_size,
          worker_count, run, pc, gone, stats, results, seen_contents, memory_cache,
          disk_cache, files, idx, tasks, out, wr, prev, summary, source, report,
          call, promoted, last>>

\* the analyzer and the cache, each called on its own
py == <<source, report, call, promoted>>

NoSource == <<>>
NoReport == <<>>

\* no call was made on the cache yet.  Of a call are kept: the operation, its
\* digest and data, what it returned, the layers it consulted, how the
\* durable write ended, whether it raised, and whether the pickle of the
\* digest existed when the call began.
NoCacheCall == [op |-> "none", d |-> <<>>, data |-> <<>>, ret |-> <<>>, layers |-> {},
                w |-> "none", raised |-> FALSE, durable |-> FALSE]

config == <<variant, target_dir, tree, cache_enabled, output_format, max_file_size,
            worker_count>>

(* ------------------------------- Stats --------------------------------- *)
NoTypes == [t \in {} |-> 0]

\* the stats dict of ContentProcessor.__init__ and AsyncContentProcessor.__init__
StatsWithCacheHits ==
    [processed_files |-> 0, skipped_files |-> 0, failed_files |-> 0,
     total_raw_size |-> 0, total_cleaned_size |-> 0, cache_hits |-> 0,
     processing_time |-> 0, total_files |-> 0, file_types |-> NoTypes]

\* the stats dict of OptimizedContentProcessor.__init__
StatsOptimized ==
    [processed_files |-> 0, skipped_files |-> 0, failed_files |-> 0,
     total_raw_size |-> 0, total_cleaned_size |-> 0,
     processing_time |-> 0, total_files |-> 0, file_types |-> NoTypes,
     failed_files_info |-> <<>>]

InitStats(v) == IF v = "optimized" THEN StatsOptimized ELSE StatsWithCacheHits

\* self.stats[key] += n
Bump(st, key, n) == [st EXCEPT ![key] = @ + n]

\* self.stats['file_types'][t] = self.stats['file_types'].get(t, 0) + 1
CountType(st, t) ==
    [st EXCEPT !.file_types =
        [x \in (DOMAIN @) \cup {t} |->
            (IF x \in DOMAIN @ THEN @[x] ELSE 0) + (IF x = t THEN 1 ELSE 0)]]

\* the detail entry appended without the exception's text
FailInfoDropsMessage(st, f, msg) ==
    [st EXCEPT !.failed_files_info = Append(@, [file |-> RelPath(f), error |-> ""])]

\* self.stats['failed_files_info'].append({...})
FailInfo(st, f, msg) ==
    [st EXCEPT !.failed_files_info = Append(@, [file |-> RelPath(f), error |-> msg])]

(* --------------------- faults of the file system ----------------------- *)
\* The I/O operations process_file performs on its file, in program order.
IoOps(v) ==
    CASE v = "async" -> <<"select", "stat", "hash", "read">>
      [] v = "optimized" -> <<"select", "stat", "read", "hash">>
      [] OTHER -> <<"select", "stat", "read">>

OpIndex(v, op) == CHOOSE k \in 1..Len(IoOps(v)) : IoOps(v)[k] = op

\* The points at which the file can be found missing during one call: fp is
\* the index of the first operation that finds it gone, Len + 1 is never.
FaultPoints(v, f, gn) ==
    IF f \in gn THEN {1}
    ELSE IF Files[f].io = "volatile" THEN 1..(Len(IoOps(v)) + 1)
    ELSE {Len(IoOps(v)) + 1}

\* operation op of the call succeeds
OpOk(v, f, op, fp) ==
    /\ OpIndex(v, op) < fp
    /\ ~(Files[f].io = "noperm" /\ op \in {"read", "hash"})
    /\ ~(Files[f].io = "latin1" /\ op = "read" /\ v = "content")

None == <<>>
Some(r) == <<r>>

\* the three outcome counters of Stats
Counters == {"processed_files", "skipped_files", "failed_files"}

\* the counters a call changed
Counted(before, after) == {k \in Counters : after[k] # before[k]}

\* What is kept of a process_file call: its file, what it returned, whether
\* it ran clean_content and analyze_code, whether the cache served it, the
\* failures it met and the counters it changed.
NoCall == [f |-> 0, ret |-> None, cleaned |-> FALSE, analyzed |-> FALSE, hit |-> FALSE,
           errs |-> {}, counted |-> {}]

(* -------------------- OptimizedContentProcessor ------------------------ *)
\* the counters once analysis has succeeded: processed_files is counted
\* before the record, whose hash re-reads the file, is built
OptEmit(f, fp, st, cleaned, analysis) ==
    LET st1 == Bump(st, "processed_files", 1)
    IN  IF ~OpOk("optimized", f, "hash", fp)
        THEN [stats |-> FailInfo(Bump(st1, "failed_files", 1), f, "Unexpected error"),
              ret |-> None, cleaned |-> TRUE, analyzed |-> TRUE, errs |-> {"hash"}]
        ELSE [stats |-> st1,
              ret |-> Some([path |-> RelPath(f), type |-> FileType(f),
                            analysis |-> analysis, size |-> Len(cleaned),
                            content |-> cleaned, hash |-> calculate_file_hash(f)]),
              cleaned |-> TRUE, analyzed |-> TRUE, errs |-> {}]

\* lines 108-133: sizes and the per-type count, then the analysis
OptAnalyze(f, fp, st, cleaned) ==
    LET st1 == CountType(Bump(st, "total_cleaned_size", Len(cleaned)), FileType(f))
        analysis == analyze_code(cleaned, FileType(f))
    IN  IF ~analysis.success
        THEN [stats |-> FailInfo(Bump(st1, "failed_files", 1), f, analysis.error),
              ret |-> None, cleaned |-> TRUE, analyzed |-> TRUE, errs |-> {"analysis"}]
        ELSE OptEmit(f, fp, st1, cleaned, analysis)

\* OptimizedContentProcessor.process_file: the stats it leaves and what it
\* returns
OptProcessFile(f, fp, maxsize, st) ==
    LET skip(s, c, e) == [stats |-> Bump(s, "skipped_files", 1), ret |-> None,
                          cleaned |-> c, analyzed |-> FALSE, errs |-> e]
        fail(s, e) == [stats |-> FailInfo(Bump(s, "failed_files", 1), f, "Unexpected error"),
                       ret |-> None, cleaned |-> FALSE, analyzed |-> FALSE, errs |-> e]
        st1 == Bump(st, "total_raw_size", StSize(f))
        cleaned == clean_content(Decode(f), FileType(f))
    IN  IF ~OpOk("optimized", f, "select", fp) THEN skip(st, FALSE, {"select"})
        ELSE IF ~OptShouldProcess(f, TRUE, maxsize) THEN skip(st, FALSE, {})
        ELSE IF ~OpOk("optimized", f, "stat", fp) THEN fail(st, {"stat"})
        ELSE IF StSize(f) = 0 THEN skip(st, FALSE, {})
        ELSE IF ~OpOk("optimized", f, "read", fp) THEN fail(st1, {"read"})
        ELSE IF Decode(f) = <<>> \/ StripsEmpty(Decode(f)) THEN skip(st1, FALSE, {})
        ELSE IF StripsEmpty(cleaned) THEN skip(st1, TRUE, {})
        ELSE OptAnalyze(f, fp, st1, cleaned)

\* the files of the tree that are on disk
OnDisk(tr, gn) == SelectSeq(tr, LAMBDA f : f \notin gn)

\* process(), lines 166-169: the files that pass the filter, and their count
\* as total_files
OptEnumerate ==
    /\ variant = "optimized"
    /\ pc = "enumerate"
    /\ files' = SelectSeq(OnDisk(tree, gone),
                          LAMBDA f : OptShouldProcess(f, TRUE, max_file_size))
    /\ stats' = [stats EXCEPT !.total_files = Len(files')]
    /\ idx' = 0
    /\ pc' = "loop"
    /\ UNCHANGED <<config, py, summary, run, gone, results, seen_contents, memory_cache,
                   disk_cache, tasks, out, wr, prev, last>>

\* process(), lines 176-180: one iteration of the loop over the files
OptProcessNext ==
    /\ variant = "optimized"
    /\ pc = "loop"
    /\ idx < Len(files)
    /\ \E fp \in FaultPoints(variant, files[idx + 1], gone) :
         LET f == files[idx + 1]
             r == OptProcessFile(f, fp, max_file_size, stats)
         IN  /\ stats' = r.stats
             /\ results' = results \o r.ret
             /\ last' = [f |-> f, ret |-> r.ret, cleaned |-> r.cleaned,
                         analyzed |-> r.analyzed, hit |-> FALSE, errs |-> r.errs,
                         counted |-> Counted(stats, r.stats)]
             /\ gone' = IF fp <= Len(IoOps(variant)) THEN gone \cup {f} ELSE gone
    /\ idx' = idx + 1
    /\ UNCHANGED <<config, py, summary, run, pc, seen_contents, memory_cache, disk_cache,
                   files, tasks, out, wr, prev>>

\* the loop is over: on to writing the results
LoopDone ==
    /\ pc = "loop"
    /\ idx = Len(files)
    /\ tasks = <<>>
    /\ pc' = "open"
    /\ UNCHANGED <<config, py, summary, run, gone, stats, results, seen_contents, memory_cache,
                   disk_cache, files, idx, tasks, out, wr, prev, last>>

(* ------------------------- the output envelope ------------------------- *)
NoOutput == [exists |-> FALSE, lines |-> <<>>]

MetaLine(rs) == [kind |-> "meta", file_count |-> Len(rs), rec |-> None]
RecLine(r) == [kind |-> "rec", file_count |-> 0, rec |-> Some(r)]
\* json.dumps(output, indent=2): metadata and all the files in one text
JsonText(rs) == [kind |-> "json", file_count |-> Len(rs), rec |-> rs]

\* aiofiles.open(output_file, 'w') succeeds: the file exists and is empty
OpenOutput ==
    /\ variant # "content"
    /\ pc = "open"
    /\ out' = [exists |-> TRUE, lines |-> <<>>]
    /\ pc' = IF output_format = "jsonl" THEN "meta" ELSE "dump"
    /\ wr' = 0
    /\ UNCHANGED <<config, py, summary, run, gone, stats, results, seen_contents, memory_cache,
                   disk_cache, files, idx, tasks, prev, last>>

\* aiofiles.open raises (the output cannot be created): except ... raise
OpenFails ==
    /\ variant # "content"
    /\ pc = "open"
    /\ pc' = "raised"
    /\ UNCHANGED <<config, py, summary, run, gone, stats, results, seen_contents, memory_cache,
                   disk_cache, files, idx, tasks, out, wr, prev, last>>

\* ContentProcessor.process: content_processor.py never imports aiofiles, so
\* the name lookup at the first aiofiles.open raises NameError
ContentOpenRaises ==
    /\ variant = "content"
    /\ pc = "open"
    /\ pc' = "raised"
    /\ UNCHANGED <<config, py, summary, run, gone, stats, results, seen_contents, memory_cache,
                   disk_cache, files, idx, tasks, out, wr, prev, last>>

\* await f.write(json.dumps(metadata) + '\n')
WriteMetadata ==
    /\ pc = "meta"
    /\ out' = [out EXCEPT !.lines = Append(@, MetaLine(results))]
    /\ pc' = "rec"
    /\ UNCHANGED <<config, py, summary, run, gone, stats, results, seen_contents, memory_cache,
                   disk_cache, files, idx, tasks, wr, prev, last>>

\* for result in results: await f.write(json.dumps(result) + '\n')
WriteRecord ==
    /\ pc = "rec"
    /\ wr < Len(results)
    /\ out' = [out EXCEPT !.lines = Append(@, RecLine(results[wr + 1]))]
    /\ wr' = wr + 1
    /\ UNCHANGED <<config, py, summary, run, pc, gone, stats, results, seen_contents,
                   memory_cache, disk_cache, files, idx, tasks, prev, last>>

\* the loop over the results is over and the file is closed
CloseOutput ==
    /\ pc = "rec"
    /\ wr = Len(results)
    /\ pc' = "finalize"
    /\ UNCHANGED <<config, py, summary, run, gone, stats, results, seen_contents, memory_cache,
                   disk_cache, files, idx, tasks, out, wr, prev, last>>

\* await f.write(json.dumps(output, indent=2))
WriteJson ==
    /\ pc = "dump"
    /\ out' = [out EXCEPT !.lines = Append(@, JsonText(results))]
    /\ pc' = "finalize"
    /\ UNCHANGED <<config, py, summary, run, gone, stats, results, seen_contents, memory_cache,
                   disk_cache, files, idx, tasks, wr, prev, last>>

\* a write raises (the disk is full, the device fails): except ... raise
WriteFails ==
    /\ pc \in {"meta", "rec", "dump"}
    /\ pc' = "raised"
    /\ UNCHANGED <<config, py, summary, run, gone, stats, results, seen_contents, memory_cache,
                   disk_cache, files, idx, tasks, out, wr, prev, last>>

\* self.stats['processing_time'] = end_time - start_time; return self.stats
Finalize ==
    /\ pc = "finalize"
    /\ stats' = [stats EXCEPT !.processing_time = 1]
    /\ pc' = "returned"
    /\ UNCHANGED <<config, py, summary, run, gone, results, seen_contents, memory_cache,
                   disk_cache, files, idx, tasks, out, wr, prev, last>>

\* KeyboardInterrupt is delivered while process() runs; no handler in
\* process() catches it (except Exception does not), so the call is
\* abandoned with everything the processor object held.  What is on disk
\* stays as it is.
Interrupt ==
    /\ pc \in {"enumerate", "loop", "open", "meta", "rec", "dump", "finalize"}
    /\ pc' = "interrupted"
    /\ stats' = InitStats(variant)
    /\ results' = <<>>
    /\ seen_contents' = {}
    /\ memory_cache' = [d \in {} |-> None]
    /\ files' = <<>>
    /\ idx' = 0
    /\ tasks' = <<>>
    /\ wr' = 0
    /\ last' = NoCall
    /\ UNCHANGED <<config, py, summary, run, gone, disk_cache, out, prev>>

(* ------------------------------ cli.main ------------------------------- *)
\* the keys display_summary subscripts (file_types is read with .get)
SummaryKeys ==
    {"processed_files", "skipped_files", "failed_files", "cache_hits",
     "total_files", "total_raw_size", "total_cleaned_size", "processing_time"}

\* display_summary: the table is printed after every row was added; a
\* missing key raises KeyError before anything is shown
display_summary(st) == IF SummaryKeys \subseteq DOMAIN st THEN "shown" ELSE "KeyError"

\* main(), lines 122-124 and 139-143: process() returned, the summary is
\* displayed; an exception of display_summary is caught by except Exception,
\* which prints the error and calls sys.exit(1)
MainDisplay ==
    /\ variant = "optimized"
    /\ pc = "returned"
    /\ pc' = IF display_summary(stats) = "shown" THEN "exit0" ELSE "exit1"
    /\ summary' = display_summary(stats)
    /\ UNCHANGED <<config, py, run, gone, stats, results, seen_contents, memory_cache,
                   disk_cache, files, idx, tasks, out, wr, prev, last>>

\* main(), lines 136-143: process() raised or was interrupted: a message is
\* printed and sys.exit(1) is called
MainExcept ==
    /\ variant = "optimized"
    /\ pc \in {"raised", "interrupted"}
    /\ pc' = "exit1"
    /\ UNCHANGED <<config, py, summary, run, gone, stats, results, seen_contents, memory_cache,
                   disk_cache, files, idx, tasks, out, wr, prev, last>>

(* ------------------------------ the runs ------------------------------- *)
NoCache == [d \in {} |-> None]

\* the program is started again on the same tree: a new processor object,
\* the .cache directory and the output file of the run before remain
NextRun ==
    /\ run < MaxRuns
    /\ pc \in {"returned", "exit0", "exit1"}
    /\ variant = "optimized" => pc # "returned"
    /\ run' = run + 1
    /\ pc' = "enumerate"
    /\ stats' = InitStats(variant)
    /\ results' = <<>>
    /\ seen_contents' = {}
    /\ memory_cache' = NoCache
    /\ files' = <<>>
    /\ idx' = 0
    /\ tasks' = <<>>
    /\ wr' = 0
    /\ last' = NoCall
    /\ prev' = results
    /\ summary' = "none"
    /\ UNCHANGED <<config, py, gone, disk_cache, out>>

InitVariant(v) ==
    /\ variant = v
    /\ target_dir \in TargetDirs
    /\ tree \in Trees
    /\ cache_enabled \in (IF v = "async" THEN BOOLEAN ELSE {TRUE})
    /\ output_format \in {"jsonl", "json"}
    /\ max_file_size \in MaxFileSizes
    /\ worker_count \in WorkerCounts
    /\ run = 1
    /\ pc = "enumerate"
    /\ gone = {}
    /\ stats = InitStats(v)
    /\ results = <<>>
    /\ seen_contents = {}
    /\ memory_cache = NoCache
    /\ disk_cache = NoCache
    /\ files = <<>>
    /\ idx = 0
    /\ tasks = <<>>
    /\ out = NoOutput
    /\ wr = 0
    /\ prev = <<>>
    /\ summary = "none"
    /\ source = NoSource
    /\ report = NoReport
    /\ call = NoCacheCall
    /\ promoted = {}
    /\ last = NoCall

InitOpt == InitVariant("optimized")

NextOpt ==
    \/ OptEnumerate
    \/ OptProcessNext
    \/ LoopDone
    \/ OpenOutput
    \/ OpenFails
    \/ WriteMetadata
    \/ WriteRecord
    \/ CloseOutput
    \/ WriteJson
    \/ WriteFails
    \/ Finalize
    \/ Interrupt
    \/ MainDisplay
    \/ MainExcept
    \/ NextRun

\* the program as the CLI runs it: cli.main with OptimizedContentProcessor
SpecOpt == InitOpt /\ [][NextOpt]_vars

(* ---------------------------- ContentProcessor ------------------------- *)
\* FileParser.get_file_type: the language tag of a file, derived from its
\* extension
get_file_type(f) == FileType(f)

\* hash(cleaned_content), taken to be collision free
ContentHash(cleaned) == <<"hash", cleaned>>

\* ContentProcessor.process_file, lines 132-167: from cleaning on
ContentClean(f, st, seen) ==
    LET cleaned == clean_content(Decode(f), FileType(f))
        st1 == CountType(Bump(st, "total_cleaned_size", Len(cleaned)), FileType(f))
    IN  IF ContentHash(cleaned) \in seen
        THEN [stats |-> Bump(st1, "skipped_files", 1), seen |-> seen, ret |-> None,
              cleaned |-> TRUE, analyzed |-> FALSE, errs |-> {}]
        ELSE [stats |-> Bump(st1, "processed_files", 1),
              seen |-> seen \cup {ContentHash(cleaned)},
              ret |-> Some([path |-> RelPath(f), type |-> get_file_type(f),
                            analysis |-> analyze_code(cleaned, FileType(f)),
                            size |-> Len(cleaned), content |-> cleaned,
                            hash |-> ContentHash(cleaned)]),
              cleaned |-> TRUE, analyzed |-> TRUE,
              errs |-> IF analyze_code(cleaned, FileType(f)).success THEN {}
                       ELSE {"analysis"}]

\* ContentProcessor.process_file
ContentProcessFile(td, f, fp, maxsize, st, seen) ==
    LET skip(s, e) == [stats |-> Bump(s, "skipped_files", 1), seen |-> seen, ret |-> None,
                       cleaned |-> FALSE, analyzed |-> FALSE, errs |-> e]
        fail(s, e) == [stats |-> Bump(s, "failed_files", 1), seen |-> seen, ret |-> None,
                       cleaned |-> FALSE, analyzed |-> FALSE, errs |-> e]
        st1 == Bump(st, "total_raw_size", StSize(f))
    IN  IF ~OpOk("content", f, "select", fp) THEN skip(st, {"select"})
        ELSE IF ~ContentShouldProcess(td, f, TRUE, maxsize) THEN skip(st, {})
        ELSE IF ~OpOk("content", f, "stat", fp) THEN fail(st, {"stat"})
        ELSE IF ~OpOk("content", f, "read", fp) THEN fail(st1, {"read"})
        ELSE IF StripsEmpty(Decode(f)) THEN skip(st1, {})
        ELSE ContentClean(f, st1, seen)

\* process_directory, lines 176-178: every regular file, and their count
ContentEnumerate ==
    /\ variant = "content"
    /\ pc = "enumerate"
    /\ files' = OnDisk(tree, gone)
    /\ stats' = [stats EXCEPT !.total_files = Len(files')]
    /\ idx' = 0
    /\ pc' = "loop"
    /\ UNCHANGED <<config, py, summary, run, gone, results, seen_contents, memory_cache,
                   disk_cache, tasks, out, wr, prev, last>>

\* process_directory, lines 180-183: one iteration of the loop
ContentProcessNext ==
    /\ variant = "content"
    /\ pc = "loop"
    /\ idx < Len(files)
    /\ \E fp \in FaultPoints(variant, files[idx + 1], gone) :
         LET f == files[idx + 1]
             r == ContentProcessFile(target_dir, f, fp, max_file_size, stats,
                                     seen_contents)
         IN  /\ stats' = r.stats
             /\ seen_contents' = r.seen
             /\ results' = results \o r.ret
             /\ last' = [f |-> f, ret |-> r.ret, cleaned |-> r.cleaned,
                         analyzed |-> r.analyzed, hit |-> FALSE, errs |-> r.errs,
                         counted |-> Counted(stats, r.stats)]
             /\ gone' = IF fp <= Len(IoOps(variant)) THEN gone \cup {f} ELSE gone
    /\ idx' = idx + 1
    /\ UNCHANGED <<config, py, summary, run, pc, memory_cache, disk_cache, files, tasks, out, wr,
                   prev>>

InitContent == InitVariant("content")

NextContent ==
    \/ ContentEnumerate
    \/ ContentProcessNext
    \/ LoopDone
    \/ ContentOpenRaises
    \/ Interrupt

\* ContentProcessor.process
SpecContent == InitContent /\ [][NextContent]_vars

(* --------------------------- FileAnalysisCache ------------------------- *)
\* dict[key] = value
Put(m, k, v) == [x \in (DOMAIN m) \cup {k} |-> IF x = k THEN v ELSE m[x]]

\* CacheGet without the store into the memory layer on a durable hit
CacheGetKeepsOnDisk(mem, disk, d) ==
    IF d \in DOMAIN mem
    THEN [ret |-> Some(mem[d]), mem |-> mem, layers |-> {"memory"}]
    ELSE IF d \in DOMAIN disk /\ disk[d] # None
         THEN [ret |-> disk[d], mem |-> mem, layers |-> {"memory", "disk"}]
    ELSE [ret |-> None, mem |-> mem, layers |-> {"memory", "disk"}]

\* CacheGet with the memory layer emptied when the durable entry does not
\* unpickle
CacheGetForgetsOnDamage(mem, disk, d) ==
    IF d \in DOMAIN mem
    THEN [ret |-> Some(mem[d]), mem |-> mem, layers |-> {"memory"}]
    ELSE IF d \in DOMAIN disk /\ disk[d] # None
         THEN [ret |-> disk[d], mem |-> Put(mem, d, disk[d][1]),
               layers |-> {"memory", "disk"}]
    ELSE IF d \in DOMAIN disk
         THEN [ret |-> None, mem |-> [x \in {} |-> None], layers |-> {"memory", "disk"}]
    ELSE [ret |-> None, mem |-> mem, layers |-> {"memory", "disk"}]

\* FileAnalysisCache.get: the entry returned, the memory layer after the
\* call and the layers the call consulted.  A durable entry is Some(record)
\* when it unpickles, None when it does not (the exception of open or
\* pickle.load is logged and the call returns None).
CacheGet(mem, disk, d) ==
    IF d \in DOMAIN mem
    THEN [ret |-> Some(mem[d]), mem |-> mem, layers |-> {"memory"}]
    ELSE IF d \in DOMAIN disk /\ disk[d] # None
         THEN [ret |-> disk[d], mem |-> Put(mem, d, disk[d][1]),
               layers |-> {"memory", "disk"}]
    ELSE [ret |-> None, mem |-> mem, layers |-> {"memory", "disk"}]

\* the ways the durable write of set can end: the file is written; open
\* raises and no file is touched; the write raises and leaves a truncated
\* file
DiskWrites == {"ok", "open_fails", "truncated"}

\* CacheSet with the memory layer written only after the durable write
\* went through
CacheSetDurableFirst(mem, disk, d, data, w) ==
    [mem |-> IF w = "ok" THEN Put(mem, d, data) ELSE mem,
     disk |-> CASE w = "ok" -> Put(disk, d, Some(data))
                [] w = "truncated" -> Put(disk, d, None)
                [] OTHER -> disk,
     raised |-> FALSE]

\* FileAnalysisCache.set: both layers after the call; w is how the durable
\* write ends.  What open or pickle.dump raises is caught by except
\* Exception and logged, so nothing is raised to the caller.
CacheSet(mem, disk, d, data, w) ==
    [mem |-> Put(mem, d, data),
     disk |-> CASE w = "ok" -> Put(disk, d, Some(data))
                [] w = "truncated" -> Put(disk, d, None)
                [] OTHER -> disk,
     raised |-> FALSE]

(* ------------------------- AsyncContentProcessor ----------------------- *)
\* asyncio.gather is given the files in chunks of this size
chunk_size == 100

\* AsyncHit with the processed_files increment left out
AsyncHitForgetsProcessed(st, cached) ==
    Bump(Bump(st, "cache_hits", 1), "total_cleaned_size", Len(cached.content))

\* AsyncHit with the size of the cached record added to total_raw_size
AsyncHitRecountsRawSize(st, cached) ==
    Bump(Bump(Bump(Bump(st, "cache_hits", 1), "total_cleaned_size", Len(cached.content)),
              "processed_files", 1),
         "total_raw_size", cached.size)

\* process_file, lines 82-86: the cached record is returned
AsyncHit(st, cached) ==
    Bump(Bump(Bump(st, "cache_hits", 1), "total_cleaned_size", Len(cached.content)),
         "processed_files", 1)

\* process_file, lines 64-113: up to the point where the coroutine awaits
\* the executor.  state "done": the call returned ret; "awaiting": the
\* analysis was handed to the process pool.
AsyncBegin(f, fp, maxsize, st, mem, disk) ==
    LET done(s, m, r, h, e) == [state |-> "done", stats |-> s, mem |-> m, ret |-> r,
                                hit |-> h, errs |-> e]
        st1 == CountType(Bump(st, "total_raw_size", StSize(f)), FileType(f))
        d == calculate_file_hash(f)
        got == CacheGet(mem, disk, d)
        \* the durable entry is there and does not unpickle
        ce == IF d \notin DOMAIN mem /\ d \in DOMAIN disk /\ disk[d] = None
              THEN {"cache"} ELSE {}
    IN  IF ~OpOk("async", f, "select", fp)
        THEN done(Bump(st, "skipped_files", 1), mem, None, FALSE, {"select"})
        ELSE IF ~AsyncShouldProcess(f, TRUE, maxsize)
        THEN done(Bump(st, "skipped_files", 1), mem, None, FALSE, {})
        ELSE IF ~OpOk("async", f, "stat", fp)
        THEN done(Bump(st, "failed_files", 1), mem, None, FALSE, {"stat"})
        ELSE IF ~OpOk("async", f, "hash", fp)
        THEN done(Bump(st1, "failed_files", 1), mem, None, FALSE, {"hash"})
        ELSE IF got.ret # None
        THEN done(AsyncHit(st1, got.ret[1]), got.mem, got.ret, TRUE, {})
        ELSE IF ~OpOk("async", f, "read", fp)
        THEN done(Bump(st1, "failed_files", 1), got.mem, None, FALSE, ce \cup {"read"})
        ELSE IF Decode(f) = <<>>
        THEN done(Bump(st1, "skipped_files", 1), got.mem, None, FALSE, ce)
        ELSE [state |-> "awaiting", stats |-> st1, mem |-> got.mem, ret |-> None,
              hit |-> FALSE, errs |-> ce]

\* process_file, lines 113-125: the analysis of the content as read, the
\* cleaned content and the record
AsyncResult(f) ==
    [path |-> RelPath(f), type |-> FileType(f),
     analysis |-> analyze_code(Decode(f), FileType(f)),
     size |-> Len(clean_content(Decode(f), FileType(f))),
     content |-> clean_content(Decode(f), FileType(f)),
     hash |-> calculate_file_hash(f)]

\* AsyncCount writing back counters read when the run began, so that the
\* increments made meanwhile are lost
AsyncCountFromStaleRead(st, result) ==
    [st EXCEPT !.total_cleaned_size = Len(result.content), !.processed_files = 1]

\* process_file, lines 127-129
AsyncCount(st, result) ==
    Bump(Bump(st, "total_cleaned_size", Len(result.content)), "processed_files", 1)

\* process_file, lines 131-133: the cache after the call
AsyncStore(enabled, mem, disk, d, result, w) ==
    IF enabled THEN CacheSet(mem, disk, d, result, w)
    ELSE [mem |-> mem, disk |-> disk, raised |-> FALSE]

\* process(), lines 170-172, and process_directory, lines 144-145:
\* total_files counts every regular file, files holds those that pass the
\* filter
AsyncEnumerate ==
    /\ variant = "async"
    /\ pc = "enumerate"
    /\ stats' = [stats EXCEPT !.total_files = Len(OnDisk(tree, gone))]
    /\ files' = SelectSeq(OnDisk(tree, gone),
                          LAMBDA f : AsyncShouldProcess(f, TRUE, max_file_size))
    /\ idx' = 0
    /\ tasks' = <<>>
    /\ pc' = "loop"
    /\ UNCHANGED <<config, py, summary, run, gone, results, seen_contents, memory_cache,
                   disk_cache, out, wr, prev, last>>

Min(a, b) == IF a < b THEN a ELSE b

\* process_directory, lines 151-153: the coroutines of the next chunk
AsyncStartChunk ==
    /\ variant = "async"
    /\ pc = "loop"
    /\ tasks = <<>>
    /\ idx < Len(files)
    /\ tasks' = [i \in 1..Min(chunk_size, Len(files) - idx) |->
                    [f |-> files[idx + i], state |-> "pending", ret |-> None,
                     errs |-> {}]]
    /\ idx' = idx + Min(chunk_size, Len(files) - idx)
    /\ UNCHANGED <<config, py, summary, run, pc, gone, stats, results, seen_contents,
                   memory_cache, disk_cache, files, out, wr, prev, last>>

\* the event loop runs the coroutines of a chunk in the order gather made
\* them, each up to its first suspension
AsyncStep1(i) ==
    /\ variant = "async"
    /\ pc = "loop"
    /\ i \in 1..Len(tasks)
    /\ tasks[i].state = "pending"
    /\ \A j \in 1..(i - 1) : tasks[j].state # "pending"
    /\ \E fp \in FaultPoints(variant, tasks[i].f, gone) :
         LET f == tasks[i].f
             r == AsyncBegin(f, fp, max_file_size, stats, memory_cache, disk_cache)
         IN  /\ stats' = r.stats
             /\ memory_cache' = r.mem
             /\ tasks' = [tasks EXCEPT ![i] = [f |-> f, state |-> r.state, ret |-> r.ret,
                                               errs |-> r.errs]]
             /\ last' = IF r.state = "done"
                        THEN [f |-> f, ret |-> r.ret, cleaned |-> FALSE,
                              analyzed |-> FALSE, hit |-> r.hit, errs |-> r.errs,
                              counted |-> Counted(stats, r.stats)]
                        ELSE last
             /\ gone' = IF fp <= Len(IoOps(variant)) THEN gone \cup {f} ELSE gone
    /\ UNCHANGED <<config, py, summary, run, pc, results, seen_contents, disk_cache, files, idx,
                   out, wr, prev>>

\* the executor delivers a coroutine's analysis and the coroutine runs to
\* its end; the analyses of a chunk are delivered in any order
AsyncStep2(i) ==
    /\ variant = "async"
    /\ pc = "loop"
    /\ i \in 1..Len(tasks)
    /\ tasks[i].state = "awaiting"
    /\ \A j \in 1..Len(tasks) : tasks[j].state # "pending"
    /\ \E w \in DiskWrites :
         LET f == tasks[i].f
             result == AsyncResult(f)
             c == AsyncStore(cache_enabled, memory_cache, disk_cache,
                             calculate_file_hash(f), result, w)
             e == tasks[i].errs
                  \cup (IF result.analysis.success THEN {} ELSE {"analysis"})
                  \cup (IF cache_enabled /\ w # "ok" THEN {"cache"} ELSE {})
         IN  /\ stats' = AsyncCount(stats, result)
             /\ memory_cache' = c.mem
             /\ disk_cache' = c.disk
             /\ tasks' = [tasks EXCEPT ![i] = [f |-> f, state |-> "done",
                                               ret |-> Some(result), errs |-> e]]
             /\ last' = [f |-> f, ret |-> Some(result), cleaned |-> TRUE,
                         analyzed |-> TRUE, hit |-> FALSE, errs |-> e,
                         counted |-> Counted(stats, AsyncCount(stats, result))]
    /\ UNCHANGED <<config, py, summary, run, pc, gone, results, seen_contents, files, idx, out, wr,
                   prev>>

RECURSIVE FlattenLastFirst(_)
\* Flatten with the results taken from the last coroutine to the first
FlattenLastFirst(rets) ==
    IF rets = <<>> THEN <<>>
    ELSE rets[Len(rets)] \o FlattenLastFirst(SubSeq(rets, 1, Len(rets) - 1))

RECURSIVE Flatten(_)
\* [r for r in chunk_results if r is not None]
Flatten(rets) == IF rets = <<>> THEN <<>> ELSE Head(rets) \o Flatten(Tail(rets))

\* process_directory, lines 154-158: gather returns the results in the order
\* of the coroutines; those that are not None are appended
AsyncGather ==
    /\ variant = "async"
    /\ pc = "loop"
    /\ tasks # <<>>
    /\ \A j \in 1..Len(tasks) : tasks[j].state = "done"
    /\ results' = results \o Flatten([j \in 1..Len(tasks) |-> tasks[j].ret])
    /\ tasks' = <<>>
    /\ UNCHANGED <<config, py, summary, run, pc, gone, stats, seen_contents, memory_cache,
                   disk_cache, files, idx, out, wr, prev, last>>

InitAsync == InitVariant("async")

NextAsync ==
    \/ AsyncEnumerate
    \/ AsyncStartChunk
    \/ \E i \in 1..MaxFiles : AsyncStep1(i)
    \/ \E i \in 1..MaxFiles : AsyncStep2(i)
    \/ AsyncGather
    \/ LoopDone
    \/ OpenOutput
    \/ OpenFails
    \/ WriteMetadata
    \/ WriteRecord
    \/ CloseOutput
    \/ WriteJson
    \/ WriteFails
    \/ Finalize
    \/ Interrupt
    \/ NextRun

\* AsyncContentProcessor.process
SpecAsync == InitAsync /\ [][NextAsync]_vars

(* --------------------------- all the variants -------------------------- *)
Init == InitContent \/ InitAsync \/ InitOpt

Next == NextContent \/ NextAsync \/ NextOpt

Spec == Init /\ [][Next]_vars

(* ----------------------- the edges of the filter ----------------------- *)
\* one file of any kind, a.py next to c.md or to a file at an edge, or two
\* files at the edges
EdgeTrees ==
    {<<f>> : f \in FileIds}
    \cup {<<1, f>> : f \in EdgeIds \cup {3}}
    \cup {s \in [1..2 -> EdgeIds] : Ascending(s)}

RECURSIVE WarmCache(_, _)
\* the .cache directory an earlier invocation of the async processor left
\* when it ran over the tree with caching on and the same filter: one
\* pickle per digest of a file that was read and analyzed
\* (process_file, lines 131-133, FileAnalysisCache.set)
WarmCache(tr, maxsize) ==
    IF tr = <<>> THEN NoCache
    ELSE LET f == tr[Len(tr)]
             rest == WarmCache(SubSeq(tr, 1, Len(tr) - 1), maxsize)
         IN  IF AsyncShouldProcess(f, TRUE, maxsize) /\ Files[f].io \in {"ok", "latin1"}
                /\ Decode(f) # <<>>
             THEN Put(rest, calculate_file_hash(f), Some(AsyncResult(f)))
             ELSE rest

\* any processor is started on a tree of EdgeTrees; the async processor
\* finds the .cache directory empty or left by an earlier invocation, which
\* ran with the same --max-size or with a higher one
InitEdge ==
    /\ variant \in {"content", "async", "optimized"}
    /\ target_dir \in TargetDirs
    /\ tree \in EdgeTrees
    /\ cache_enabled \in (IF variant = "async" THEN BOOLEAN ELSE {TRUE})
    /\ output_format \in {"jsonl", "json"}
    /\ max_file_size \in MaxFileSizes
    /\ worker_count \in WorkerCounts
    /\ run = 1
    /\ pc = "enumerate"
    /\ gone = {}
    /\ stats = InitStats(variant)
    /\ results = <<>>
    /\ seen_contents = {}
    /\ memory_cache = NoCache
    /\ disk_cache \in (IF variant = "async"
                       THEN {NoCache, WarmCache(tree, max_file_size),
                             WarmCache(tree, max_file_size + 1)}
                       ELSE {NoCache})
    /\ files = <<>>
    /\ idx = 0
    /\ tasks = <<>>
    /\ out = NoOutput
    /\ wr = 0
    /\ prev = <<>>
    /\ summary = "none"
    /\ source = NoSource
    /\ report = NoReport
    /\ call = NoCacheCall
    /\ promoted = {}
    /\ last = NoCall

SpecEdge == InitEdge /\ [][Next]_vars

(* ---------------------- the analyzer on its own ------------------------ *)
\* PythonAnalyzer.analyze is called on a source
InitAnalyze ==
    /\ variant = "analyzer"
    /\ target_dir \in TargetDirs
    /\ tree = <<>>
    /\ cache_enabled = TRUE
    /\ output_format = "jsonl"
    /\ max_file_size \in MaxFileSizes
    /\ worker_count \in WorkerCounts
    /\ run = 1
    /\ pc = "analyze"
    /\ gone = {}
    /\ stats = StatsWithCacheHits
    /\ results = <<>>
    /\ seen_contents = {}
    /\ memory_cache = NoCache
    /\ disk_cache = NoCache
    /\ files = <<>>
    /\ idx = 0
    /\ tasks = <<>>
    /\ out = NoOutput
    /\ wr = 0
    /\ prev = <<>>
    /\ summary = "none"
    /\ source \in {<<src>> : src \in Sources(MaxTop)}
    /\ report = NoReport
    /\ call = NoCacheCall
    /\ promoted = {}
    /\ last = NoCall

\* PythonAnalyzer.analyze returns
Analyze ==
    /\ variant = "analyzer"
    /\ pc = "analyze"
    /\ report' = <<PythonAnalyze(source[1])>>
    /\ pc' = "analyzed"
    /\ UNCHANGED <<config, run, gone, stats, results, seen_contents, memory_cache,
                   disk_cache, files, idx, tasks, out, wr, prev, summary, source, call,
                   promoted, last>>

NextAnalyze == Analyze

SpecAnalyze == InitAnalyze /\ [][NextAnalyze]_vars

(* ------------------------ the cache on its own ------------------------- *)
\* the files whose digests and records the cache is called with: a.py and
\* d.java share one digest, g.py and h.js another
CacheFiles == {1, 4, 6, 11}

\* dict without a key: the pickle of a digest is removed from .cache
Drop(m, k) == [x \in (DOMAIN m) \ {k} |-> m[x]]

InitCache ==
    /\ variant = "cache"
    /\ target_dir \in TargetDirs
    /\ tree = <<>>
    /\ cache_enabled = TRUE
    /\ output_format = "jsonl"
    /\ max_file_size \in MaxFileSizes
    /\ worker_count \in WorkerCounts
    /\ run = 1
    /\ pc = "cache"
    /\ gone = {}
    /\ stats = StatsWithCacheHits
    /\ results = <<>>
    /\ seen_contents = {}
    /\ memory_cache = NoCache
    /\ disk_cache = NoCache
    /\ files = <<>>
    /\ idx = 0
    /\ tasks = <<>>
    /\ out = NoOutput
    /\ wr = 0
    /\ prev = <<>>
    /\ summary = "none"
    /\ source = NoSource
    /\ report = NoReport
    /\ call = NoCacheCall
    /\ promoted = {}
    /\ last = NoCall

\* cache.get(d) is called and returns
CacheCallGet ==
    /\ variant = "cache"
    /\ \E f \in CacheFiles :
         LET d == calculate_file_hash(f)
             r == CacheGet(memory_cache, disk_cache, d)
         IN  /\ memory_cache' = r.mem
             /\ call' = [op |-> "get", d |-> d, data |-> None, ret |-> r.ret,
                         layers |-> r.layers, w |-> "none", raised |-> FALSE,
                         durable |-> d \in DOMAIN disk_cache]
             /\ promoted' = IF d \notin DOMAIN memory_cache /\ r.ret # None
                            THEN promoted \cup {d} ELSE promoted
    /\ UNCHANGED <<config, run, pc, gone, stats, results, seen_contents, disk_cache, files,
                   idx, tasks, out, wr, prev, summary, source, report, last>>

\* cache.set(d, data) is called with the record of a file whose digest is d,
\* and returns
CacheCallSet ==
    /\ variant = "cache"
    /\ \E f \in CacheFiles, w \in DiskWrites :
         LET d == calculate_file_hash(f)
             c == CacheSet(memory_cache, disk_cache, d, AsyncResult(f), w)
         IN  /\ memory_cache' = c.mem
             /\ disk_cache' = c.disk
             /\ call' = [op |-> "set", d |-> d, data |-> Some(AsyncResult(f)),
                         ret |-> None, layers |-> {}, w |-> w, raised |-> c.raised,
                         durable |-> d \in DOMAIN disk_cache]
             /\ promoted' = promoted \ {d}
    /\ UNCHANGED <<config, run, pc, gone, stats, results, seen_contents, files, idx, tasks,
                   out, wr, prev, summary, source, report, last>>

\* somebody removes a pickle from the .cache directory
DurableRemoved ==
    /\ variant = "cache"
    /\ \E d \in DOMAIN disk_cache : disk_cache' = Drop(disk_cache, d)
    /\ UNCHANGED <<config, py, run, pc, gone, stats, results, seen_contents, memory_cache,
                   files, idx, tasks, out, wr, prev, summary, last>>

\* FileAnalysisCache.__init__ in a new process: the memory layer is empty,
\* the .cache directory is as it was left
CacheNew ==
    /\ variant = "cache"
    /\ call.op # "new"
    /\ memory_cache' = NoCache
    /\ call' = [NoCacheCall EXCEPT !.op = "new"]
    /\ promoted' = {}
    /\ UNCHANGED <<config, run, pc, gone, stats, results, seen_contents, disk_cache, files,
                   idx, tasks, out, wr, prev, summary, source, report, last>>

NextCache ==
    \/ CacheCallGet
    \/ CacheCallSet
    \/ DurableRemoved
    \/ CacheNew

SpecCache == InitCache /\ [][NextCache]_vars

(* ============================== claims ================================= *)
\* the filter of the running variant, for a file that is on disk
Eligible(f) ==
    CASE variant = "content" -> ContentShouldProcess(target_dir, f, TRUE, max_file_size)
      [] variant = "async" -> AsyncShouldProcess(f, TRUE, max_file_size)
      [] OTHER -> OptShouldProcess(f, TRUE, max_file_size)

\* the file can be read and stays on disk
Healthy(f) == Files[f].io = "ok"

CleanedOf(f) == clean_content(Decode(f), FileType(f))

\* the cache holds an entry for d that can be loaded
IntactEntry(mem, disk, d) ==
    d \in DOMAIN mem \/ (d \in DOMAIN disk /\ disk[d] # None)

\* the entry get(d) finds: memory first, then disk
EntryOf(mem, disk, d) == IF d \in DOMAIN mem THEN mem[d] ELSE disk[d][1]

\* C1: in AsyncContentProcessor.process_file, an eligible file that is
\* readable and on disk throughout the call, and whose raw-byte digest has an
\* intact cache entry, gets that entry back unchanged; neither clean_content
\* nor analyze_code runs; cache_hits and processed_files grow by exactly 1,
\* skipped_files and failed_files stay.
C1_CacheHitServed ==
    [][\A i \in 1..MaxFiles :
          ( /\ variant = "async"
            /\ pc = "loop"
            /\ i <= Len(tasks)
            /\ Len(tasks') = Len(tasks)
            /\ tasks[i].state = "pending"
            /\ tasks'[i].state # "pending"
            /\ AsyncShouldProcess(tasks[i].f, TRUE, max_file_size)
            /\ Files[tasks[i].f].io # "noperm"
            /\ tasks[i].f \notin gone'
            /\ IntactEntry(memory_cache, disk_cache, calculate_file_hash(tasks[i].f)) )
          =>
          ( /\ tasks'[i].state = "done"
            /\ tasks'[i].ret = Some(EntryOf(memory_cache, disk_cache,
                                            calculate_file_hash(tasks[i].f)))
            /\ last'.f = tasks[i].f
            /\ last'.hit
            /\ ~last'.cleaned
            /\ ~last'.analyzed
            /\ stats'.cache_hits = stats.cache_hits + 1
            /\ stats'.processed_files = stats.processed_files + 1
            /\ stats'.skipped_files = stats.skipped_files
            /\ stats'.failed_files = stats.failed_files )
      ]_vars

\* C1 witness: a call of the async processor was served from the cache
C1_Witness ==
    /\ variant = "async"
    /\ last.f # 0
    /\ last.hit
    /\ last.ret # None
    /\ stats.cache_hits >= 1

\* C2 (as claimed): in every variant, when the tree is two eligible files at
\* different paths with the same non-empty cleaned content, the run loop ends
\* with exactly one record and skipped_files = 1.
C2_DuplicateSuppressed ==
    ( /\ pc = "open"
      /\ Len(tree) = 2
      /\ gone = {}
      /\ \A i \in 1..2 : Eligible(tree[i]) /\ Healthy(tree[i])
      /\ CleanedOf(tree[1]) = CleanedOf(tree[2])
      /\ ~StripsEmpty(CleanedOf(tree[1])) )
    => (Len(results) = 1 /\ stats.skipped_files = 1)

\* the positions of the tree that hold eligible, analysable source files
SourcePositions == {i \in 1..Len(tree) :
                      /\ Eligible(tree[i])
                      /\ Healthy(tree[i])
                      /\ ~StripsEmpty(CleanedOf(tree[i]))
                      /\ analyze_code(CleanedOf(tree[i]), FileType(tree[i])).success}

\* the positions that hold files whose extension is not in the allow-list
ForeignPositions == {i \in 1..Len(tree) :
                       /\ Healthy(tree[i])
                       /\ Lower(Suffix(tree[i])) \notin included_extensions}

\* C3 (as claimed): over a tree of k >= 2 byte-identical eligible sources
\* and m files outside the allow-list, the run loop ends with one record,
\* processed_files = 1, skipped_files = (k - 1) + m and total_files = k + m.
C3_EndToEndCounts ==
    ( /\ pc = "open"
      /\ run = 1
      /\ gone = {}
      /\ Cardinality(SourcePositions) >= 2
      /\ Cardinality(SourcePositions) + Cardinality(ForeignPositions) = Len(tree)
      /\ \A i, j \in SourcePositions : Files[tree[i]].bytes = Files[tree[j]].bytes )
    => ( /\ Len(results) = 1
         /\ stats.processed_files = 1
         /\ stats.skipped_files = (Cardinality(SourcePositions) - 1)
                                  + Cardinality(ForeignPositions)
         /\ stats.total_files = Len(tree) )

\* C4 (as claimed): in every state of a run the three outcome counters add
\* up to at most the total_files the enumeration recorded.
C4_CountersWithinTotal ==
    pc \in {"loop", "open", "meta", "rec", "dump", "finalize", "returned", "raised"}
    => stats.processed_files + stats.skipped_files + stats.failed_files
         <= stats.total_files

SameContentAndAnalysis(r1, r2) == r1.content = r2.content /\ r1.analysis = r2.analysis

\* C5 (as claimed): a second run of the async processor over the unchanged
\* tree, caching enabled and the durable cache kept, yields for every record
\* of the first run a record with the same content and analysis, and no
\* record without such a counterpart.
C5_RerunIdempotent ==
    ( /\ variant = "async"
      /\ cache_enabled
      /\ run = 2
      /\ pc = "open"
      /\ gone = {} )
    => ( /\ \A i \in 1..Len(prev) : \E j \in 1..Len(results) :
               SameContentAndAnalysis(prev[i], results[j])
         /\ \A j \in 1..Len(results) : \E i \in 1..Len(prev) :
               SameContentAndAnalysis(prev[i], results[j]) )

\* C6 (as claimed, for selection, read and analysis failures): a call that
\* met a failure returned None and counted the file as skipped or failed.
C6_FailureReturnsNone ==
    (last.f # 0 /\ last.errs \cap {"select", "stat", "hash", "read", "analysis"} # {})
    => (last.ret = None /\ last.counted \cap {"skipped_files", "failed_files"} # {})

\* C7 (as claimed): when process() is interrupted or fails while writing,
\* the output file does not hold the metadata line followed by fewer records
\* than the metadata announces.
C7_NoPartialEnvelope ==
    ~( /\ pc \in {"interrupted", "raised"}
       /\ out.exists
       /\ out.lines # <<>>
       /\ out.lines[1].kind = "meta"
       /\ Len(out.lines) - 1 < out.lines[1].file_count )

\* C8 (as claimed): whenever the processor the CLI constructs returns from
\* process(), display_summary(stats) completes and main() goes on to a
\* normal exit, not to the handler that exits with status 1.
C8_SummaryAfterReturn ==
    [][(variant = "optimized" /\ pc = "returned")
          => (display_summary(stats) = "shown" /\ pc' = "exit0")]_vars

\* C9 (as claimed): a call whose analysis reported failure counted the file
\* in failed_files and not in processed_files, returned no record, and no
\* record of the file is in the result list, in a coroutine's result or in
\* the cache.
C9_AnalysisFailureDiscarded ==
    (last.f # 0 /\ "analysis" \in last.errs)
    => ( /\ last.ret = None
         /\ last.counted = {"failed_files"}
         /\ \A i \in 1..Len(results) : results[i].path # RelPath(last.f)
         /\ \A d \in DOMAIN memory_cache : memory_cache[d].path # RelPath(last.f) )

\* C10 (as claimed): a call of OptimizedContentProcessor.process_file on an
\* eligible, readable, non-empty file whose type has no registered analyzer
\* ends as a skip: nothing is returned and failed_files does not count it.
C10_UnsupportedTypeIsSkip ==
    ( /\ variant = "optimized"
      /\ last.f # 0
      /\ Healthy(last.f)
      /\ OptShouldProcess(last.f, TRUE, max_file_size)
      /\ ~StripsEmpty(CleanedOf(last.f))
      /\ get_analyzer(FileType(last.f)) = "none" )
    => (last.ret = None /\ "failed_files" \notin last.counted)

\* the lower-cased extension of the file is in the allow-list
Included(f) == Lower(Suffix(f)) \in included_extensions

\* the paths of the records the run holds: in the result list, in the
\* results of the chunk's coroutines and in the output file
RecordPaths ==
    {results[i].path : i \in 1..Len(results)}
    \cup {tasks[i].ret[1].path : i \in {j \in 1..Len(tasks) : tasks[j].ret # None}}
    \cup UNION { {out.lines[i].rec[j].path : j \in 1..Len(out.lines[i].rec)} :
                 i \in 1..Len(out.lines) }

\* a process_file call returned in this step
CallReturned == last' # last /\ last'.f # 0

\* C11: in every variant and with any cache contents, no record of a file
\* whose lower-cased extension is outside included_extensions is in the
\* result list, in a coroutine's result or in the output file; a
\* process_file call on such a file returns None and leaves total_raw_size
\* and total_cleaned_size as they were; and total_raw_size never exceeds the
\* sizes of the allow-listed files of the tree.
C11_NotAllowListedLeavesNoTrace ==
    [][ /\ \A i \in 1..Len(tree) :
              ~Included(tree[i]) => RelPath(tree[i]) \notin RecordPaths'
        /\ stats'.total_raw_size
              <= SumSeq([i \in 1..Len(tree) |->
                           IF Included(tree[i]) THEN StSize(tree[i]) ELSE 0])
        /\ (CallReturned /\ ~Included(last'.f))
              => ( /\ last'.ret = None
                   /\ stats'.total_raw_size = stats.total_raw_size
                   /\ stats'.total_cleaned_size = stats.total_cleaned_size )
      ]_vars

\* C11 witness: process_file returned for a file outside the allow-list
\* after another file of the tree had been counted in the byte totals
C11_Witness ==
    /\ last.f # 0
    /\ ~Included(last.f)
    /\ last.counted = {"skipped_files"}
    /\ stats.total_raw_size > 0

\* the filter of variant v for a file that is on disk, under ceiling m
ShouldProcess(v, f, m) ==
    CASE v = "content" -> ContentShouldProcess(target_dir, f, TRUE, m)
      [] v = "async" -> AsyncShouldProcess(f, TRUE, m)
      [] OTHER -> OptShouldProcess(f, TRUE, m)

\* C12: in every variant, a file of the tree whose size is above
\* max_file_size is rejected by should_process_file, never enters the list
\* of files to process, has no record anywhere, and a process_file call on
\* it returns None as a skip; for a file whose size equals max_file_size the
\* filter answers as it would under a higher ceiling.
C12_SizeCeiling ==
    /\ \A i \in 1..Len(tree) :
          /\ StSize(tree[i]) > max_file_size
                => ( /\ \A v \in {"content", "async", "optimized"} :
                           ~ShouldProcess(v, tree[i], max_file_size)
                     /\ RelPath(tree[i]) \notin RecordPaths
                     /\ variant # "content" => \A k \in 1..Len(files) : files[k] # tree[i] )
          /\ StSize(tree[i]) = max_file_size
                => \A v \in {"content", "async", "optimized"} :
                      ShouldProcess(v, tree[i], max_file_size)
                        = ShouldProcess(v, tree[i], max_file_size + 1)
    /\ (last.f # 0 /\ StSize(last.f) > max_file_size)
          => (last.ret = None /\ last.counted = {"skipped_files"})

\* C12 witness: the tree holds a file above the ceiling, which was skipped,
\* and a file exactly at the ceiling, which has just yielded a record
C12_Witness ==
    /\ \E i \in 1..Len(tree) : StSize(tree[i]) > max_file_size
    /\ stats.skipped_files >= 1
    /\ last.f # 0
    /\ StSize(last.f) = max_file_size
    /\ last.ret # None

\* the path of the file relative to the target directory contains an
\* excluded pattern as a substring
PatternInPath(f) == \E p \in excluded_patterns : Contains(p, RelPath(f))

\* C13: in every variant, a file of the tree whose relative path contains an
\* excluded pattern is rejected by should_process_file although its
\* extension is allow-listed and its size is within the ceiling; it never
\* enters the list of files the async and optimized loops process, no record
\* of it exists, and a process_file call on it returns None as a skip.
C13_ExclusionWins ==
    /\ \A i \in 1..Len(tree) :
          (PatternInPath(tree[i]) /\ Included(tree[i]) /\ StSize(tree[i]) <= max_file_size)
          => ( /\ \A v \in {"content", "async", "optimized"} :
                     ~ShouldProcess(v, tree[i], max_file_size)
               /\ RelPath(tree[i]) \notin RecordPaths
               /\ variant # "content" => \A k \in 1..Len(files) : files[k] # tree[i] )
    /\ (last.f # 0 /\ PatternInPath(last.f))
          => (last.ret = None /\ last.counted = {"skipped_files"})

\* C13 witness: the async processor returned from a run over a.py and an
\* allow-listed, small file in an excluded directory whose digest the cache
\* holds; one record was written
C13_Witness ==
    /\ variant = "async"
    /\ pc = "returned"
    /\ \E i \in 1..Len(tree) :
          /\ PatternInPath(tree[i]) /\ Included(tree[i]) /\ StSize(tree[i]) <= max_file_size
          /\ calculate_file_hash(tree[i]) \in DOMAIN disk_cache
    /\ Len(results) = 1

\* C14 (as claimed): when process() returns and no file was removed meanwhile,
\* stats.total_files is the number of regular files under the target
\* directory, whether they pass the filter or not.
C14_TotalFilesCountsAll ==
    (pc = "returned" /\ gone = {}) => stats.total_files = Len(tree)

\* C15 (as claimed): the records of the result list have pairwise different
\* paths, and the record a process_file call returns, computed or taken
\* from the cache, carries the relative path of the file it was called on.
C15_RecordPathIsOwnPath ==
    /\ \A i, j \in 1..Len(results) : i # j => results[i].path # results[j].path
    /\ (last.f # 0 /\ last.ret # None) => last.ret[1].path = RelPath(last.f)

\* the process_file coroutines that have handed their analysis to a process
\* pool and wait for it
InFlight == {i \in 1..Len(tasks) : tasks[i].state = "awaiting"}

\* C16 (as claimed): while AsyncContentProcessor.process_directory runs, no
\* more than worker_count process_file pipelines are in flight at once.
C16_WidthWithinWorkerCount ==
    variant = "async" => Cardinality(InFlight) <= worker_count

\* C17 (as claimed): with cache_enabled false the async processor writes no
\* cache entry, cache_hits stays 0, no process_file call is served from the
\* cache, and every call that returns a record has cleaned and analyzed the
\* file, whatever the durable cache holds.
C17_NoCacheMeansNoCache ==
    [][(variant = "async" /\ ~cache_enabled)
          => ( /\ disk_cache' = disk_cache
               /\ stats'.cache_hits = 0
               /\ CallReturned
                    => ( /\ ~last'.hit
                         /\ last'.ret # None => (last'.cleaned /\ last'.analyzed) ) )
      ]_vars

\* C18 (as claimed): when process() raised after the run loop had started,
\* main() has attempted display_summary by the time it exits with status 1.
C18_SummaryAttemptedAfterRaise ==
    [][(variant = "optimized" /\ pc = "raised" /\ pc' = "exit1") => summary' # "none"]_vars

RECURSIVE CountIn(_, _)
\* how many statements of the given kinds a body holds, at any depth
CountIn(body, kinds) ==
    IF body = <<>> THEN 0
    ELSE (IF Head(body).kind \in kinds THEN 1 ELSE 0)
         + CountIn(Head(body).body, kinds) + CountIn(Tail(body), kinds)

FunctionKinds == {"FunctionDef", "AsyncFunctionDef"}

\* the function definitions directly in a body
DirectFunctions(body) == SelectSeq(body, LAMBDA n : n.kind \in FunctionKinds)

\* C19 (as claimed): for a source that parses, analyze succeeds; functions
\* has one descriptor per function definition at any depth of the tree,
\* classes one per class definition, and each class descriptor one method
\* per function definition directly in the class body; so for a module of
\* two functions and one class with one method, functions has length >= 3,
\* classes length 1 and its methods length 1.
C19_DescriptorsPerDefinition ==
    (report # NoReport /\ source[1].parses)
    => LET body == source[1].body
           r == report[1]
           cs == SelectSeq(Walk(body), LAMBDA n : n.kind = "ClassDef")
       IN  /\ r.success
           /\ Len(r.functions) = CountIn(body, FunctionKinds)
           /\ Len(r.classes) = CountIn(body, {"ClassDef"})
           /\ \A i \in 1..Len(r.classes) :
                 i <= Len(cs) => Len(r.classes[i].methods) = Len(DirectFunctions(cs[i].body))
           /\ ( /\ Len(DirectFunctions(body)) = 2
                /\ Len(cs) = 1
                /\ Len(DirectFunctions(cs[1].body)) = 1 )
               => ( /\ Len(r.functions) >= 3
                    /\ Len(r.classes) = 1
                    /\ Len(r.classes[1].methods) = 1 )

\* a segment of the file's path under the target directory starts with '.'
\* or is one of the ignored directory names
HiddenOrIgnored(f) ==
    \E k \in 1..Len(Files[f].rel) :
        \/ StartsWith(Files[f].rel[k], <<".">>)
        \/ Files[f].rel[k] \in ignored_prefixes

\* C20 (as claimed): in every variant, should_process_file rejects a file
\* with a hidden or ignored segment in its path: the file does not enter
\* the list the async and optimized loops process, a process_file call on
\* it returns None, and no record of it exists.
C20_HiddenSegmentsRejected ==
    \A i \in 1..Len(tree) :
        HiddenOrIgnored(tree[i])
        => ( /\ variant # "content" => \A k \in 1..Len(files) : files[k] # tree[i]
             /\ last.f = tree[i] => last.ret = None
             /\ RelPath(tree[i]) \notin RecordPaths )

\* the call that has just returned on the cache used on its own
CacheCalled(op) == call' # call /\ call'.op = op

\* C21: FileAnalysisCache.get(d) answers from the memory layer alone when
\* that layer holds d, and leaves the layer as it is; on a memory miss with a
\* durable entry that loads, it returns that entry and stores it in the
\* memory layer in the same call; an entry stored that way stays in the
\* memory layer with the same value until set(d) or the end of the process,
\* whatever happens to the durable file, so that a later get(d) is served
\* from memory with that value.
C21_MemoryFirstThenPromote ==
    [][ /\ CacheCalled("get")
           => LET d == call'.d
              IN  /\ d \in DOMAIN memory_cache
                       => ( /\ call'.ret = Some(memory_cache[d])
                            /\ call'.layers = {"memory"}
                            /\ memory_cache' = memory_cache )
                  /\ (d \notin DOMAIN memory_cache /\ d \in DOMAIN disk_cache
                        /\ disk_cache[d] # None)
                       => ( /\ call'.ret = disk_cache[d]
                            /\ d \in DOMAIN memory_cache'
                            /\ memory_cache'[d] = disk_cache[d][1] )
                  /\ d \in promoted
                       => ( /\ call'.ret = Some(memory_cache[d])
                            /\ call'.layers = {"memory"} )
        /\ \A d \in promoted :
              /\ d \in DOMAIN memory_cache
              /\ ~(CacheCalled("new") \/ (CacheCalled("set") /\ call'.d = d))
                    => (d \in DOMAIN memory_cache' /\ memory_cache'[d] = memory_cache[d])
        /\ variant = "cache" => disk_cache' = disk_cache \/ ~CacheCalled("get")
      ]_vars

\* C21 witness: get returned an entry from the memory layer alone that an
\* earlier get had loaded from the durable layer, whose file is gone by now
C21_Witness ==
    /\ call.op = "get"
    /\ call.d \in promoted
    /\ call.layers = {"memory"}
    /\ call.ret # None
    /\ ~call.durable

\* C22: FileAnalysisCache.set(d, e) raises nothing to its caller however the
\* durable write ends, and once it has returned, get(d) on the same object
\* yields e from the memory layer, whether the pickle was written, was not
\* created, or was left truncated.
C22_SetIsBestEffort ==
    [][CacheCalled("set")
          => ( /\ ~call'.raised
               /\ CacheGet(memory_cache', disk_cache', call'.d).ret = call'.data
               /\ CacheGet(memory_cache', disk_cache', call'.d).layers = {"memory"}
               /\ call'.w = "open_fails" => disk_cache' = disk_cache )
      ]_vars

\* C22 witness: set returned after its durable write had failed, and the
\* get that followed returned the entry although no pickle that loads exists
C22_Witness ==
    /\ call.op = "get"
    /\ call.ret # None
    /\ promoted = {}
    /\ ~IntactEntry(NoCache, disk_cache, call.d)

\* the durable entry of d exists and does not load, and the memory layer
\* has no entry for d
DamagedEntry(mem, disk, d) == d \notin DOMAIN mem /\ d \in DOMAIN disk /\ disk[d] = None

\* C23: when the pickle of a digest exists and does not load (as a failed
\* durable write leaves it), get returns None, raises nothing and leaves the
\* memory layer as it was; the process_file call that made the lookup goes
\* on as after a miss: no cache hit and no failure is counted, the file is
\* read and handed to the analyzer, and the call returns the record computed
\* from the file.
C23_DamagedEntryIsMiss ==
    [][\A i \in 1..MaxFiles :
          /\ ( /\ variant = "async"
               /\ pc = "loop"
               /\ i <= Len(tasks)
               /\ Len(tasks') = Len(tasks)
               /\ tasks[i].state = "pending"
               /\ tasks'[i].state # "pending"
               /\ AsyncShouldProcess(tasks[i].f, TRUE, max_file_size)
               /\ Healthy(tasks[i].f)
               /\ DamagedEntry(memory_cache, disk_cache, calculate_file_hash(tasks[i].f)) )
             => ( /\ CacheGet(memory_cache, disk_cache,
                              calculate_file_hash(tasks[i].f)).ret = None
                  /\ memory_cache' = memory_cache
                  /\ stats'.cache_hits = stats.cache_hits
                  /\ stats'.failed_files = stats.failed_files
                  /\ stats'.skipped_files = stats.skipped_files
                  /\ tasks'[i].state = "awaiting" )
          /\ ( /\ variant = "async"
               /\ pc = "loop"
               /\ i <= Len(tasks)
               /\ Len(tasks') = Len(tasks)
               /\ tasks[i].state = "awaiting"
               /\ tasks'[i].state = "done" )
             => ( /\ tasks'[i].ret = Some(AsyncResult(tasks[i].f))
                  /\ last'.f = tasks[i].f
                  /\ last'.cleaned /\ last'.analyzed /\ ~last'.hit
                  /\ stats'.processed_files = stats.processed_files + 1
                  /\ stats'.cache_hits = stats.cache_hits )
      ]_vars

\* C23 witness: a process_file call found the pickle of its file's digest
\* damaged, with another entry already in the memory layer, and waits for
\* the analysis
C23_Witness ==
    /\ variant = "async"
    /\ \E i \in 1..Len(tasks) :
          /\ tasks[i].state = "awaiting"
          /\ "cache" \in tasks[i].errs
          /\ calculate_file_hash(tasks[i].f) \in DOMAIN disk_cache
          /\ disk_cache[calculate_file_hash(tasks[i].f)] = None
    /\ memory_cache # NoCache

\* the step belongs to one run of process(): the processor object is not
\* replaced and the call is not abandoned
WithinRun == run' = run /\ pc' # "interrupted"

\* C24 (as claimed): once a layer of the cache holds an entry for a digest,
\* no step of the run changes the value that layer holds for it.
C24_EntriesImmutable ==
    [][(variant = "async" /\ WithinRun)
          => ( /\ \A d \in DOMAIN memory_cache :
                     d \in DOMAIN memory_cache' /\ memory_cache'[d] = memory_cache[d]
               /\ \A d \in DOMAIN disk_cache :
                     d \in DOMAIN disk_cache' /\ disk_cache'[d] = disk_cache[d] )
      ]_vars

\* the process_file coroutines of the run that have returned
Completed == idx - Cardinality({i \in 1..Len(tasks) : tasks[i].state # "done"})

\* the files process_file was started on and has read the size of: those of
\* the earlier chunks and the coroutines of this chunk that have run
Accounted ==
    {k \in 1..idx :
        k <= idx - Len(tasks) \/ tasks[k - (idx - Len(tasks))].state # "pending"}

\* C25: in every state of a run of the async processor, however the
\* coroutines of a chunk interleave, processed_files + skipped_files +
\* failed_files is the number of process_file calls that have returned, so
\* it is the number of files dispatched once all have completed; and, when
\* no file was removed during the run, total_raw_size is the sum of the
\* sizes of the files whose call has passed selection.
C25_NoLostStatsUpdate ==
    variant = "async"
    => ( /\ stats.processed_files + stats.skipped_files + stats.failed_files = Completed
         /\ (pc \in {"open", "meta", "rec", "dump", "finalize", "returned", "raised"})
               => stats.processed_files + stats.skipped_files + stats.failed_files
                    = Len(files)
         /\ gone = {}
               => stats.total_raw_size
                    = SumSeq([k \in 1..idx |->
                                IF k \in Accounted THEN StSize(files[k]) ELSE 0]) )

\* C25 witness: two coroutines of one chunk both waited for their analysis,
\* the second got its first, and both have returned records
C25_Witness ==
    /\ variant = "async"
    /\ Len(tasks) = 2
    /\ tasks[1].state = "done" /\ tasks[2].state = "done"
    /\ stats.cache_hits = 0
    /\ tasks[1].ret # None /\ tasks[2].ret # None
    /\ last.f = tasks[1].f
    /\ stats.processed_files = 2

\* C26 (as claimed): in a run of the async processor with caching enabled,
\* no two process_file coroutines whose files have the same digest are both
\* past the cache lookup and on their way to the analyzer and to cache.set.
C26_OneAnalysisPerDigest ==
    (variant = "async" /\ cache_enabled)
    => \A i, j \in InFlight :
          i # j => calculate_file_hash(tasks[i].f) # calculate_file_hash(tasks[j].f)

RECURSIVE IsSubSeq(_, _)
\* a can be had from b by leaving elements out
IsSubSeq(a, b) ==
    IF a = <<>> THEN TRUE
    ELSE IF b = <<>> THEN FALSE
    ELSE IF Head(a) = Head(b) THEN IsSubSeq(Tail(a), Tail(b))
    ELSE IsSubSeq(a, Tail(b))

\* the digests of the records of a list, in its order
HashesOf(rs) == [i \in 1..Len(rs) |-> rs[i].hash]

\* the files of the chunks gathered so far, in enumeration order
Gathered == SubSeq(files, 1, idx - Len(tasks))

\* the files of which process_file returns a record when nothing is removed
\* meanwhile: those that can be opened and are not empty
YieldsRecord(f) == Files[f].io # "noperm" /\ Decode(f) # <<>>

\* C27: the result list of the async processor holds the records of the
\* chunks gathered so far in the enumeration order of their files, whatever
\* the order in which the coroutines completed: its digests are a
\* subsequence of the digests of the files in that order, and when no file
\* was removed meanwhile they are exactly the digests of the files that
\* yield a record; the output file holds the records in the order of the
\* result list.
C27_ResultOrderIsEnumerationOrder ==
    variant = "async"
    => ( /\ IsSubSeq(HashesOf(results),
                     [k \in 1..Len(Gathered) |-> calculate_file_hash(Gathered[k])])
         /\ gone = {}
               => HashesOf(results)
                    = [k \in 1..Len(SelectSeq(Gathered, YieldsRecord)) |->
                          calculate_file_hash(SelectSeq(Gathered, YieldsRecord)[k])]
         /\ pc = "rec"
               => ( /\ Len(out.lines) = wr + 1
                    /\ \A k \in 1..wr : out.lines[k + 1].rec = Some(results[k]) )
         /\ (pc \in {"finalize", "returned"} /\ output_format = "jsonl")
               => ( /\ Len(out.lines) = Len(results) + 1
                    /\ \A k \in 1..Len(results) : out.lines[k + 1].rec = Some(results[k]) )
         /\ (pc \in {"finalize", "returned"} /\ output_format = "json")
               => out.lines = <<JsonText(results)>> )

\* C27 witness: the second coroutine of a chunk completed before the first,
\* and the two records were written to the output file in the order of the
\* files, which have different digests
C27_Witness ==
    /\ variant = "async"
    /\ pc = "returned"
    /\ output_format = "jsonl"
    /\ Len(results) = 2
    /\ results[1].hash # results[2].hash
    /\ last.f = files[1]
    /\ last.analyzed
    /\ stats.cache_hits = 0

\* C28 (as claimed): a process_file call that returned has changed exactly
\* one of processed_files, skipped_files and failed_files, and has returned
\* a record exactly when that one is processed_files; so when the run loop
\* is over processed_files is the number of records in the result list.
C28_OneCounterPerCall ==
    /\ last.f # 0
          => ( /\ Cardinality(last.counted) = 1
               /\ last.ret # None <=> last.counted = {"processed_files"} )
    /\ pc = "open" => stats.processed_files = Len(results)

\* the sum of the per-extension counters
FileTypesTotal(st) ==
    LET ts == DOMAIN st.file_types
        RECURSIVE Total(_)
        Total(S) == IF S = {} THEN 0
                    ELSE LET t == CHOOSE x \in S : TRUE
                         IN  st.file_types[t] + Total(S \ {t})
    IN  Total(ts)

\* C29 (as claimed): when a process_file call has returned and no other
\* call is under way, the per-extension counters add up to processed_files.
C29_FileTypesMatchProcessed ==
    (last.f # 0 /\ \A i \in 1..Len(tasks) : tasks[i].state = "done")
    => FileTypesTotal(stats) = stats.processed_files

\* the process_file calls started in this step: the file of each and the
\* failures the call has met by the end of the step
CallsStarted ==
    IF variant \in {"content", "optimized"} /\ pc = "loop" /\ idx' = idx + 1
    THEN {<<files[idx + 1], last'.errs>>}
    ELSE IF variant = "async" /\ pc = "loop" /\ Len(tasks') = Len(tasks)
    THEN {<<tasks[i].f, tasks'[i].errs>> :
             i \in {j \in 1..Len(tasks) :
                      tasks[j].state = "pending" /\ tasks'[j].state # "pending"}}
    ELSE {}

\* the sizes of the files of the tree that pass the filter of the variant
EligibleSize == SumSeq([i \in 1..Len(tree) |->
                          IF Eligible(tree[i]) THEN StSize(tree[i]) ELSE 0])

\* C30: in every variant, the step in which process_file is started on a
\* file adds the file's size to total_raw_size when the file passes
\* should_process_file and its size can be read, whatever the call ends as
\* afterwards (cache hit, duplicate, empty, read failure, analysis failure),
\* and leaves total_raw_size alone otherwise; no other step of a run changes
\* it; and when the run loop is over and no file was removed meanwhile,
\* total_raw_size is the sum of the sizes of the files that pass the filter.
C30_RawSizeCountedOnce ==
    [][ /\ \A c \in CallsStarted :
              IF Eligible(c[1]) /\ c[2] \cap {"select", "stat"} = {}
              THEN stats'.total_raw_size = stats.total_raw_size + StSize(c[1])
              ELSE stats'.total_raw_size = stats.total_raw_size
        /\ ( /\ WithinRun
             /\ variant \in {"content", "async", "optimized"}
             /\ CallsStarted = {} )
              => stats'.total_raw_size = stats.total_raw_size
        /\ (pc' = "open" /\ gone' = {}) => stats'.total_raw_size = EligibleSize
      ]_vars

\* C30 witness: the run loop of the async processor is over, no file was
\* removed, and total_raw_size holds the sizes of two files that were both
\* served from the cache
C30_Witness ==
    /\ variant = "async"
    /\ pc = "open"
    /\ gone = {}
    /\ stats.cache_hits = 2
    /\ stats.total_raw_size = EligibleSize
    /\ stats.total_raw_size >= 2

\* C31 (as claimed): when the run loop is over, total_cleaned_size is the sum
\* of the size fields of the records in the result list.
C31_CleanedSizeMatchesRecords ==
    pc = "open" => stats.total_cleaned_size = SumSeq([i \in 1..Len(results) |-> results[i].size])

\* C32 (as claimed): in every variant, a process_file call on an eligible,
\* readable file whose content is empty after stripping whitespace counts
\* the file as skipped and returns no record, and no step of a run adds a
\* cache entry for the digest of such a file.
C32_BlankFileSkipped ==
    [][ /\ ( /\ CallReturned
             /\ Eligible(last'.f)
             /\ Healthy(last'.f)
             /\ StripsEmpty(Decode(last'.f)) )
           => (last'.ret = None /\ last'.counted = {"skipped_files"})
        /\ \A i \in 1..Len(tree) :
              (Eligible(tree[i]) /\ StripsEmpty(Decode(tree[i])))
              => LET d == calculate_file_hash(tree[i])
                 IN  /\ d \in DOMAIN disk_cache' => d \in DOMAIN disk_cache
                     /\ d \in DOMAIN memory_cache'
                           => (d \in DOMAIN memory_cache \/ d \in DOMAIN disk_cache)
      ]_vars

C33_WitnessUndecodable ==
    /\ variant = "content"
    /\ last.f # 0
    /\ Files[last.f].io = "latin1"
    /\ last.errs = {"read"}

(* ---------------- ContentProcessor under other target directories ------- *)
\* the directories ContentProcessor is pointed at, as the components of
\* config.target_dir: a plain one, one reached through the parent directory,
\* one under a directory named build and one under a hidden directory
ContentTargetDirs ==
    { << <<"r","e","p","o">> >>,
      << <<".",".">>, <<"r","e","p","o">> >>,
      << <<"b","u","i","l","d">>, <<"r","e","p","o">> >>,
      << <<".","p","r","o","j","e","c","t","s">>, <<"r","e","p","o">> >> }

\* ContentProcessor(config) for any of these directories
InitTarget ==
    /\ variant = "content"
    /\ target_dir \in ContentTargetDirs
    /\ tree \in Trees
    /\ cache_enabled = TRUE
    /\ output_format \in {"jsonl", "json"}
    /\ max_file_size \in MaxFileSizes
    /\ worker_count \in WorkerCounts
    /\ run = 1
    /\ pc = "enumerate"
    /\ gone = {}
    /\ stats = InitStats("content")
    /\ results = <<>>
    /\ seen_contents = {}
    /\ memory_cache = NoCache
    /\ disk_cache = NoCache
    /\ files = <<>>
    /\ idx = 0
    /\ tasks = <<>>
    /\ out = NoOutput
    /\ wr = 0
    /\ prev = <<>>
    /\ summary = "none"
    /\ source = NoSource
    /\ report = NoReport
    /\ call = NoCacheCall
    /\ promoted = {}
    /\ last = NoCall

SpecTarget == InitTarget /\ [][NextContent]_vars

\* the call ended in the skip that follows a negative should_process_file
FilterRejected ==
    /\ last.counted = {"skipped_files"}
    /\ ~last.cleaned
    /\ last.errs = {}

\* C34 (as claimed): ContentProcessor.process_file rejects a file that is on
\* disk and not blank exactly when should_process_file rejects the file's
\* path relative to the target directory; the components of the target
\* directory itself never make the hidden-segment or ignored-prefix test
\* reject it.
C34_VerdictFromRelativePath ==
    ( /\ last.f # 0
      /\ "select" \notin last.errs
      /\ ~StripsEmpty(Decode(last.f)) )
    => (FilterRejected <=> ~ContentShouldProcess(<<>>, last.f, TRUE, max_file_size))

\* C35 (as claimed): in every variant the analysis a record carries is the
\* analysis of the record's content field: process_file cleans the text
\* first and hands the cleaned text to analyze_code.
C35_AnalysisOfCleanedContent ==
    \A i \in 1..Len(results) :
        results[i].analysis = analyze_code(results[i].content, results[i].type)

(* ----------------------- CodeAnalyzer on its own ----------------------- *)
\* the longest text, in lines, the dispatcher is called with
MaxLines == 2

\* the kinds of line a text is made of
LineTokens == {"a", "#", "//", "", "!"}

\* the texts analyze_code and clean_content are called with
Contents(n) == SeqsUpTo(LineTokens, n)

\* the file types they are called with: the registered keys, the same in
\* upper and mixed case, types nothing is registered for, and no type
FileTypeTags ==
    {PY} \cup JSTypes
    \cup { <<"P","Y">>, <<"P","y">>, <<"J","S">>, <<"j","a","v","a">>, <<"m","d">>, <<>> }

\* the keys of CodeAnalyzer.analyzers
RegisteredTags == {PY} \cup JSTypes

\* what the two calls are made with
InitDispatch ==
    /\ variant = "dispatch"
    /\ target_dir \in TargetDirs
    /\ tree = <<>>
    /\ cache_enabled = TRUE
    /\ output_format = "jsonl"
    /\ max_file_size \in MaxFileSizes
    /\ worker_count \in WorkerCounts
    /\ run = 1
    /\ pc = "dispatch"
    /\ gone = {}
    /\ stats = StatsWithCacheHits
    /\ results = <<>>
    /\ seen_contents = {}
    /\ memory_cache = NoCache
    /\ disk_cache = NoCache
    /\ files = <<>>
    /\ idx = 0
    /\ tasks = <<>>
    /\ out = NoOutput
    /\ wr = 0
    /\ prev = <<>>
    /\ summary = "none"
    /\ source \in {<<[content |-> c, file_type |-> t]>> :
                      c \in Contents(MaxLines), t \in FileTypeTags}
    /\ report = NoReport
    /\ call = NoCacheCall
    /\ promoted = {}
    /\ last = NoCall

\* CodeAnalyzer.analyze_code and CodeAnalyzer.clean_content return
Dispatch ==
    /\ variant = "dispatch"
    /\ pc = "dispatch"
    /\ report' = <<[analysis |-> analyze_code(source[1].content, source[1].file_type),
                    cleaned |-> clean_content(source[1].content, source[1].file_type)]>>
    /\ pc' = "dispatched"
    /\ UNCHANGED <<config, run, gone, stats, results, seen_contents, memory_cache,
                   disk_cache, files, idx, tasks, out, wr, prev, summary, source, call,
                   promoted, last>>

NextDispatch == Dispatch

SpecDispatch == InitDispatch /\ [][NextDispatch]_vars

\* C36: once analyze_code and clean_content have returned, the analysis is
\* a value with a boolean success flag whatever the type and the text (the
\* call did not raise); and for a type whose lower-case form is no key of
\* the registry, success is false, the error is the 'Unsupported file type'
\* message and the cleaned text is the text that was passed in.
C36_UnsupportedTypeIsFailureValue ==
    pc = "dispatched" =>
        LET in == source[1]
            r == report[1]
        IN  /\ "success" \in DOMAIN r.analysis
            /\ r.analysis.success \in BOOLEAN
            /\ Lower(in.file_type) \notin RegisteredTags
                  => /\ r.analysis.success = FALSE
                     /\ r.analysis.error = "Unsupported file type"
                     /\ r.cleaned = in.content

C36_Witness ==
    /\ pc = "dispatched"
    /\ source[1].file_type = <<"j","a","v","a">>
    /\ source[1].content = <<"#", "a">>
    /\ report[1].analysis.success = FALSE
    /\ report[1].cleaned = <<"#", "a">>

====
